---- MODULE Spec2Model ----
(***************************************************************************)
(* A model of the electricity_pipeline package: the MessageStore and the   *)
(* MQTT subscriber, the publisher, the retrieval orchestrator with its     *)
(* file cache, the remote data client and the run loop of main.py.         *)
(***************************************************************************)
EXTENDS Integers, Sequences, FiniteSets, TLC

VARIABLES
    \* ---- subscriber.py: MessageStore and the threads calling it
    lock,        \* MessageStore._lock: 0 when free, else the holding thread
    data,        \* MessageStore._data: [none |-> BOOLEAN, rows |-> Seq(message)]
    tpc,         \* position of each thread inside append / snapshot
    tmsg,        \* the message argument of the append a thread is running
    trow,        \* the local `row` of a running append
    tnew,        \* the frame computed by pd.concat, before it is assigned
    tsnap,       \* the value a snapshot call returns
    tseen,       \* history: the appends completed when the snapshot copied
    completed,   \* history: messages of the appends that returned, in order
    started,     \* history: number of operations started
    \* ---- api_client.py: the sub-windows of one series fetch
    wpc,         \* position: "idle", "split", "loop", "done"
    wop,         \* which fetch computes the windows
    wstart,      \* start (days)
    wend,        \* end (days)
    wint,        \* interval
    wcur,        \* current_start of the while loop
    wwins,       \* the sub-windows produced, in order
    \* ---- api_client.py: OpenElectricityClient, the operation in progress
    cop,         \* "none", "catalog", "bulk", "network", "single"
    cphase,      \* "idle", "ready", "wait", "done", "raised"
    cstart,      \* start (days)
    cend,        \* end (days)
    cint,        \* interval
    cmetrics,    \* the metrics the operation loops over
    cplan,       \* bulk: the (metric, window, batch) turns of the nested loops
    cfacilities, \* bulk: the `facilities` argument, the code of each catalog entry
    cidx,        \* bulk: the turn in cplan; single: the index of the metric
    ccur,        \* network, single: current_start
    cpage,       \* single: the page of the cursor chain being requested
    cdata,       \* single: the number of points in `data` so far
    cstatus,     \* HTTP status of the last response (0 before the first)
    cout,        \* what the handler did with the last response
    cyield,      \* the number of records yielded for the last response
    craised,     \* the status of the error raised to the caller (0: none)
    cret,        \* fetch_facilities: the returned list
    inflight,    \* requests sent and not yet answered
    nreq,        \* history: requests issued in this call
    nchains,     \* history: cursor chains started in this call
    reqSeen,     \* history: the requests issued in this call
    dupIssued,   \* history: a request was issued a second time in this call
    had404,      \* history: some response of this call was a 404
    \* ---- retrieval.py and caching.py: retrieve_and_cache_dataset
    cache,       \* the cache directory: path -> file content (Absent: no file)
    rpc,         \* position inside retrieve_and_cache_dataset
    rargs,       \* the arguments of the call
    rrecords,    \* the raw records the client has yielded
    rclean,      \* `cleaned`
    rresult,     \* the returned table
    rhit,        \* history: this call returned from the cache
    rreqs,       \* history: remote fetches made by this call
    rwrites,     \* history: cache writes made by this call
    rrepeat,     \* history: this call repeats the previous call's request
    prevOutcome, \* history: how the previous call ended
    prevFetched, \* history: the previous call made remote fetches
    prevResult,  \* history: what the previous call returned (when repeated)
    ncalls,      \* history: number of calls
    \* ---- main.py: run_pipeline
    upc,         \* position inside run_pipeline
    uargs,       \* the command line arguments
    iteration,   \* `iteration`
    ucycles,     \* history: iterations that reached the end of the loop body
    ufail,       \* history: the step whose exception ended run_pipeline
    \* ---- publisher.py: publish_dataset
    ppc,         \* position: "idle", "connect", "loop", "done", "raised"
    pdf,         \* the table argument: [cols, rows]
    pcombined,   \* combined_records: the indices of the rows kept by the filter
    pleft,       \* the rows the for loop has not reached yet
    psent,       \* history: the client.publish calls of this call, in order
    popen,       \* the connection of this call is open
    popened,     \* history: connections opened by this call
    pclosed,     \* history: connections closed by this call
    pconnok,     \* history: "none", "ok", "failed": how client.connect ended
    \* ---- subscriber.py: MqttSubscriber
    shandler,    \* self.on_message: "none" before construction, "store", "custom"
    sloop,       \* the network loop thread is running
    sconn,       \* the connection: "none", "pending", "acked", "refused"
    ssubscribed, \* the topic subscription is active
    sstore,      \* the rows of self.store, in order
    shandled,    \* the messages handed to a custom handler
    slast,       \* history: the last _on_message call
    sop,         \* history: the last operation, with the state it started in
    sstarts,     \* history: start() calls
    sattempts,   \* history: client.connect calls
    ssubs,       \* history: client.subscribe calls
    sacks,       \* history: successful connection acknowledgements
    serrors,     \* history: failures logged by the subscriber
    srefused,    \* history: acknowledgements with a non-zero code
    sraised,     \* history: start() calls that raised the connect error
    sstopLen,    \* history: rows in the store when stop() returned (-1: running)
    \* ---- subscriber.py: MessageStore.snapshot and the caller's copy
    nstore,      \* the rows of _data: [cell, meta], meta a reference to an object
    nheap,       \* the objects the cells refer to: reference -> content
    nsnap,       \* the table the last snapshot() returned, as the caller holds it
    nhas,        \* the caller holds a snapshot
    nop,         \* history: the last operation
    \* ---- data_processing.py and caching.py applied to one input
    dop          \* the last call: its input and what it returned or raised

storeVars == <<lock, data, tpc, tmsg, trow, tnew, tsnap, tseen, completed, started>>

winVars == <<wpc, wop, wstart, wend, wint, wcur, wwins>>

clientVars == <<cop, cphase, cstart, cend, cint, cmetrics, cplan, cfacilities, cidx, ccur,
                cpage, cdata, cstatus, cout, cyield, craised, cret, inflight, nreq, nchains,
                reqSeen, dupIssued, had404>>

retrVars == <<cache, rpc, rargs, rrecords, rclean, rresult, rhit, rreqs, rwrites, rrepeat,
              prevOutcome, prevFetched, prevResult, ncalls>>

runVars == <<upc, uargs, iteration, ucycles, ufail>>

pubVars == <<ppc, pdf, pcombined, pleft, psent, popen, popened, pclosed, pconnok>>

subVars == <<shandler, sloop, sconn, ssubscribed, sstore, shandled, slast, sop, sstarts,
             sattempts, ssubs, sacks, serrors, srefused, sraised, sstopLen>>

snapVars == <<nstore, nheap, nsnap, nhas, nop>>

procVars == <<dop>>

vars == <<storeVars, winVars, clientVars, retrVars, runVars, pubVars, subVars, snapVars,
          procVars>>

notStore == <<winVars, clientVars, retrVars, runVars, pubVars, subVars, snapVars, procVars>>
notWin == <<storeVars, clientVars, retrVars, runVars, pubVars, subVars, snapVars, procVars>>
notClient == <<storeVars, winVars, retrVars, runVars, pubVars, subVars, snapVars, procVars>>
notRetr == <<storeVars, winVars, clientVars, pubVars, subVars, snapVars, procVars>>
notPub == <<storeVars, winVars, clientVars, retrVars, runVars, subVars, snapVars, procVars>>
notSub == <<storeVars, winVars, clientVars, retrVars, runVars, pubVars, snapVars, procVars>>
notSnap == <<storeVars, winVars, clientVars, retrVars, runVars, pubVars, subVars, procVars>>
notProc == <<storeVars, winVars, clientVars, retrVars, runVars, pubVars, subVars, snapVars>>

(***************************************************************************)
(* Bounds                                                                  *)
(***************************************************************************)
NumThreads == 3
MaxOps == 4
MaxStart == 1
MaxSpanDays == 32
MaxFacilities == 6
MaxPages == 2
MaxCalls == 2
MaxIter == 3
MaxRows == 3
MaxMsgs == 2
MaxStarts == 2
MaxStoreRows == 2
TicksPerDay == 2
MaxRecords == 3
MaxJoinRows == 2
MaxFairThreads == 2
MaxFairOps == 3

\* batch_size of fetch_facilities_metrics
BatchSize == 5

Threads == 1..NumThreads
Msgs == {"m1", "m2"}

(***************************************************************************)
(* subscriber.py: MessageStore                                             *)
(***************************************************************************)
NoFrame == [none |-> TRUE, rows |-> <<>>]
Frame(rows) == [none |-> FALSE, rows |-> rows]

StoreInit ==
    /\ lock = 0
    /\ data = NoFrame
    /\ tpc = [t \in Threads |-> "idle"]
    /\ tmsg = [t \in Threads |-> "m1"]
    /\ trow = [t \in Threads |-> <<>>]
    /\ tnew = [t \in Threads |-> <<>>]
    /\ tsnap = [t \in Threads |-> <<>>]
    /\ tseen = [t \in Threads |-> <<>>]
    /\ completed = <<>>
    /\ started = 0

\* a thread calls append(message)
CallAppend(t, m) ==
    /\ tpc[t] = "idle"
    /\ started < MaxOps
    /\ tpc' = [tpc EXCEPT ![t] = "app_lock"]
    /\ tmsg' = [tmsg EXCEPT ![t] = m]
    /\ started' = started + 1
    /\ UNCHANGED <<notStore, lock, data, trow, tnew, tsnap, tseen, completed>>

\* a thread calls snapshot()
CallSnapshot(t) ==
    /\ tpc[t] = "idle"
    /\ started < MaxOps
    /\ tpc' = [tpc EXCEPT ![t] = "snap_lock"]
    /\ started' = started + 1
    /\ UNCHANGED <<notStore, lock, data, tmsg, trow, tnew, tsnap, tseen, completed>>

\* `with self._lock:` entered without waiting for the lock to be free
LockIsFreeNoCheck == TRUE

\* threading.Lock: acquire succeeds only while no thread holds the lock
LockIsFree == lock = 0

\* `with self._lock:` on entry
Acquire(t) ==
    /\ tpc[t] \in {"app_lock", "snap_lock"}
    /\ LockIsFree
    /\ lock' = t
    /\ tpc' = [tpc EXCEPT ![t] = IF tpc[t] = "app_lock" THEN "app_row" ELSE "snap_copy"]
    /\ UNCHANGED <<notStore, data, tmsg, trow, tnew, tsnap, tseen, completed, started>>

\* row = pd.DataFrame([message])
AppendRow(t) ==
    /\ tpc[t] = "app_row"
    /\ trow' = [trow EXCEPT ![t] = <<tmsg[t]>>]
    /\ tpc' = [tpc EXCEPT ![t] = "app_concat"]
    /\ UNCHANGED <<notStore, lock, data, tmsg, tnew, tsnap, tseen, completed, started>>

\* an append that leaves out a message the buffer already holds
ConcatDistinct(frame, row) ==
    IF frame.none THEN row
    ELSE IF \E i \in 1..Len(frame.rows) : frame.rows[i] = row[1] THEN frame.rows
    ELSE frame.rows \o row

\* the right-hand side of the assignment: `row` when _data is None, else
\* pd.concat([self._data, row], ignore_index=True)
ConcatRows(frame, row) == IF frame.none THEN row ELSE frame.rows \o row

AppendConcat(t) ==
    /\ tpc[t] = "app_concat"
    /\ tnew' = [tnew EXCEPT ![t] = ConcatRows(data, trow[t])]
    /\ tpc' = [tpc EXCEPT ![t] = "app_assign"]
    /\ UNCHANGED <<notStore, lock, data, tmsg, trow, tsnap, tseen, completed, started>>

\* self._data = ...
AppendAssign(t) ==
    /\ tpc[t] = "app_assign"
    /\ data' = Frame(tnew[t])
    /\ tpc' = [tpc EXCEPT ![t] = "app_unlock"]
    /\ UNCHANGED <<notStore, lock, tmsg, trow, tnew, tsnap, tseen, completed, started>>

\* a lock that stays held when an exception leaves the block
LockOnExitUnlessRaised(holder, t, raised) == IF holder = t /\ ~raised THEN 0 ELSE holder

\* `with self._lock:` on exit, by return or by exception: __exit__ releases
\* the lock of the thread that holds it
LockOnExit(holder, t, raised) == IF holder = t THEN 0 ELSE holder

\* pd.DataFrame([message]) or pd.concat raises: the exception leaves the
\* with block, which releases the lock, and append raises to its caller;
\* _data is as it was
AppendFail(t) ==
    /\ tpc[t] \in {"app_row", "app_concat"}
    /\ lock' = LockOnExit(lock, t, TRUE)
    /\ tpc' = [tpc EXCEPT ![t] = "idle"]
    /\ trow' = [trow EXCEPT ![t] = <<>>]
    /\ tnew' = [tnew EXCEPT ![t] = <<>>]
    /\ UNCHANGED <<notStore, data, tmsg, tsnap, tseen, completed, started>>

\* leaving the with block of append: the lock is released and append returns
AppendReturn(t) ==
    /\ tpc[t] = "app_unlock"
    /\ lock' = LockOnExit(lock, t, FALSE)
    /\ completed' = Append(completed, tmsg[t])
    /\ tpc' = [tpc EXCEPT ![t] = "idle"]
    /\ trow' = [trow EXCEPT ![t] = <<>>]
    /\ tnew' = [tnew EXCEPT ![t] = <<>>]
    /\ UNCHANGED <<notStore, data, tmsg, tsnap, tseen, started>>

\* snapshot(): pd.DataFrame() when _data is None, else self._data.copy()
SnapshotCopy(t) ==
    /\ tpc[t] = "snap_copy"
    /\ tsnap' = [tsnap EXCEPT ![t] = IF data.none THEN <<>> ELSE data.rows]
    /\ tseen' = [tseen EXCEPT ![t] = completed]
    /\ tpc' = [tpc EXCEPT ![t] = "snap_unlock"]
    /\ UNCHANGED <<notStore, lock, data, tmsg, trow, tnew, completed, started>>

\* leaving the with block of snapshot: the lock is released, the copy returned
SnapshotReturn(t) ==
    /\ tpc[t] = "snap_unlock"
    /\ lock' = LockOnExit(lock, t, FALSE)
    /\ tpc' = [tpc EXCEPT ![t] = "snap_ret"]
    /\ UNCHANGED <<notStore, data, tmsg, trow, tnew, tsnap, tseen, completed, started>>

\* the caller has taken the returned frame
SnapshotDone(t) ==
    /\ tpc[t] = "snap_ret"
    /\ tpc' = [tpc EXCEPT ![t] = "idle"]
    /\ tsnap' = [tsnap EXCEPT ![t] = <<>>]
    /\ tseen' = [tseen EXCEPT ![t] = <<>>]
    /\ UNCHANGED <<notStore, lock, data, tmsg, trow, tnew, completed, started>>

StoreNext ==
    \/ \E t \in Threads, m \in Msgs : CallAppend(t, m)
    \/ \E t \in Threads : CallSnapshot(t)
    \/ \E t \in Threads : Acquire(t)
    \/ \E t \in Threads : AppendRow(t)
    \/ \E t \in Threads : AppendConcat(t)
    \/ \E t \in Threads : AppendAssign(t)
    \/ \E t \in Threads : AppendReturn(t)
    \/ \E t \in Threads : AppendFail(t)
    \/ \E t \in Threads : SnapshotCopy(t)
    \/ \E t \in Threads : SnapshotReturn(t)
    \/ \E t \in Threads : SnapshotDone(t)

(***************************************************************************)
(* api_client.py: the interval's range limit and the sub-windows           *)
(***************************************************************************)
Min(a, b) == IF a < b THEN a ELSE b

\* interval_param: the ISO-8601 durations are rewritten to the API's format
IntervalParam(interval) ==
    CASE interval = "PT5M" -> "5m"
      [] interval = "PT1H" -> "1h"
      [] interval = "PT1D" -> "1d"
      [] interval = "PT30M" -> "30m"
      [] OTHER -> interval

\* max_days_per_request, in days (the unit of time of the model)
MaxDaysPerRequest(interval_param) ==
    CASE interval_param = "5m" -> 7
      [] interval_param = "1h" -> 30
      [] interval_param = "1d" -> 365
      [] OTHER -> 365

MaxRange(interval) == MaxDaysPerRequest(IntervalParam(interval))

\* the window end without the clamp to the end of the requested range
WindowEndNoClamp(current_start, end, max_range) == current_start + max_range

\* current_end = min(current_start + max_range, end)
WindowEnd(current_start, end, max_range) == Min(current_start + max_range, end)

\* date_range > max_range: the range is split into several requests
SplitNeeded(start, end, max_range) == end - start > max_range

RECURSIVE WindowsFrom(_, _, _)
\* while current_start < end: append (current_start, current_end)
WindowsFrom(current_start, end, max_range) ==
    IF current_start < end
    THEN <<<<current_start, WindowEnd(current_start, end, max_range)>>>>
         \o WindowsFrom(WindowEnd(current_start, end, max_range), end, max_range)
    ELSE <<>>

\* date_windows of fetch_facilities_metrics
DateWindows(start, end, max_range) ==
    IF SplitNeeded(start, end, max_range)
    THEN WindowsFrom(start, end, max_range)
    ELSE <<<<start, end>>>>

(***************************************************************************)
(* The window computation on its own: the list of fetch_facilities_metrics *)
(* and the loop of fetch_network_data / fetch_facility_metrics             *)
(***************************************************************************)
WinInit ==
    /\ wpc = "idle"
    /\ wop = "none"
    /\ wstart = 0
    /\ wend = 0
    /\ wint = "5m"
    /\ wcur = 0
    /\ wwins = <<>>

\* a series fetch is called with (start, end, interval)
WinCall(op, start, end, interval) ==
    /\ wpc = "idle"
    /\ wpc' = "split"
    /\ wop' = op
    /\ wstart' = start
    /\ wend' = end
    /\ wint' = interval
    /\ wcur' = start
    /\ wwins' = <<>>
    /\ UNCHANGED notWin

\* fetch_facilities_metrics: date_windows is built before any request
WinList ==
    /\ wpc = "split"
    /\ wop = "bulk"
    /\ wwins' = DateWindows(wstart, wend, MaxRange(wint))
    /\ wpc' = "done"
    /\ UNCHANGED <<notWin, wop, wstart, wend, wint, wcur>>

\* fetch_network_data, fetch_facility_metrics: the range fits one request
WinWhole ==
    /\ wpc = "split"
    /\ wop \in {"network", "single"}
    /\ ~SplitNeeded(wstart, wend, MaxRange(wint))
    /\ wwins' = <<<<wstart, wend>>>>
    /\ wpc' = "done"
    /\ UNCHANGED <<notWin, wop, wstart, wend, wint, wcur>>

\* fetch_network_data, fetch_facility_metrics: one turn of the while loop
WinLoop ==
    /\ wpc \in {"split", "loop"}
    /\ wop \in {"network", "single"}
    /\ SplitNeeded(wstart, wend, MaxRange(wint))
    /\ IF wcur < wend
       THEN /\ wwins' = Append(wwins, <<wcur, WindowEnd(wcur, wend, MaxRange(wint))>>)
            /\ wcur' = WindowEnd(wcur, wend, MaxRange(wint))
            /\ wpc' = "loop"
       ELSE /\ wpc' = "done"
            /\ UNCHANGED <<wwins, wcur>>
    /\ UNCHANGED <<notWin, wop, wstart, wend, wint>>

WinReset ==
    /\ wpc = "done"
    /\ wpc' = "idle"
    /\ wop' = "none"
    /\ wstart' = 0
    /\ wend' = 0
    /\ wint' = "5m"
    /\ wcur' = 0
    /\ wwins' = <<>>
    /\ UNCHANGED notWin

SeriesOps == {"bulk", "network", "single"}
Intervals == {"5m", "1h", "1d", "PT5M", "PT1H", "PT30M", "15m"}

WinNext ==
    \/ \E op \in SeriesOps, start \in 0..MaxStart, span \in 0..MaxSpanDays, interval \in Intervals :
          WinCall(op, start, start + span, interval)
    \/ WinList
    \/ WinWhole
    \/ WinLoop
    \/ WinReset

(***************************************************************************)
(* api_client.py: OpenElectricityClient, one operation at a time.  A       *)
(* request is issued (ClientIssue) and the call blocks until the response  *)
(* is received and handled (the ...Receive actions).                       *)
(***************************************************************************)
Statuses == {200, 404, 416, 500, 503}

MetricLists == {<<"power">>, <<"power", "emissions">>, <<"price">>, <<"power", "price">>}

\* catalog entries: the facility code of each, 0 for an entry without a code
FacilityLists ==
    {[i \in 1..n |-> IF i = k THEN 0 ELSE i] : n \in 0..MaxFacilities, k \in 0..1}

\* facility_codes = [f.get("code") for f in facilities if f.get("code")]
IsCode(c) == c # 0
FacilityCodes(facilities) == SelectSeq(facilities, IsCode)

\* facility_metrics = [m for m in metrics if m not in ["price", "demand"]]
IsFacilityMetric(m) == m \notin {"price", "demand"}
FacilityMetrics(metrics) == SelectSeq(metrics, IsFacilityMetric)

\* a batching that leaves out the last, shorter batch
NumBatchesFloor(codes) == Len(codes) \div BatchSize

\* range(0, len(facility_codes), batch_size): the number of batches
NumBatches(codes) == (Len(codes) + BatchSize - 1) \div BatchSize

\* batch = facility_codes[i:i + batch_size] for the b-th value of i
Batch(codes, b) ==
    SubSeq(codes, (b - 1) * BatchSize + 1, Min(b * BatchSize, Len(codes)))

\* the three nested for loops: metric, then date window, then batch
BulkPlan(fm, wins, codes) ==
    [k \in 1..(Len(fm) * Len(wins) * NumBatches(codes)) |->
        LET nb == NumBatches(codes)
            mi == ((k - 1) \div (Len(wins) * nb)) + 1
            wi == (((k - 1) \div nb) % Len(wins)) + 1
            bi == ((k - 1) % nb) + 1
        IN  <<fm[mi], wi, bi>>]

\* what fetch_facilities does with a response: every HTTPError of _request,
\* the 404 too, is raised again
CatalogOutcome(status) == IF status = 200 THEN "return" ELSE "raise"

\* the handler of fetch_facilities_metrics skipping every error status
BulkOutcomeSkipAll(status) == IF status = 200 THEN "yield" ELSE "skip"

\* the handler of fetch_facilities_metrics raising on 404 too
BulkOutcomeRaise404(status) == IF status = 200 THEN "yield" ELSE "raise"

\* fetch_facilities_metrics: except requests.HTTPError
BulkOutcome(status) ==
    CASE status = 200 -> "yield"
      [] status \in {404, 416} -> "skip"
      [] status = 500 -> "skip"
      [] OTHER -> "raise"

\* _fetch_network_data_single_request: except requests.HTTPError
NetworkOutcome(status) ==
    CASE status = 200 -> "yield"
      [] status = 404 -> "skip"
      [] OTHER -> "raise"

\* _fetch_facility_metrics_single: the inner handler continues on 404 and
\* raises the rest, which the outer `except Exception` logs and skips
SingleOutcome(status) ==
    CASE status = 200 -> "yield"
      [] status = 404 -> "skip"
      [] OTHER -> "skip"

\* a client that issues a failed batch request again
BulkAdvanceRetry(idx, status) == IF status = 500 THEN idx ELSE idx + 1

\* the for loops of fetch_facilities_metrics go on to the next batch
BulkAdvance(idx, status) == idx + 1

ClientInit ==
    /\ cop = "none"
    /\ cphase = "idle"
    /\ cstart = 0
    /\ cend = 0
    /\ cint = "5m"
    /\ cmetrics = <<>>
    /\ cplan = <<>>
    /\ cfacilities = <<>>
    /\ cidx = 0
    /\ ccur = 0
    /\ cpage = 0
    /\ cdata = 0
    /\ cstatus = 0
    /\ cout = "none"
    /\ cyield = 0
    /\ nreq = 0
    /\ nchains = 0
    /\ reqSeen = {}
    /\ dupIssued = FALSE
    /\ had404 = FALSE
    /\ craised = 0
    /\ cret = <<>>
    /\ inflight = 0

clientInputs == <<cstart, cend, cint, cmetrics, cplan, cfacilities>>
clientHist == <<nreq, nchains, reqSeen, dupIssued, had404, inflight>>

\* fetch_facilities(): one request to the catalog endpoint
CallCatalog ==
    /\ cphase = "idle"
    /\ cop' = "catalog"
    /\ cphase' = "ready"
    /\ UNCHANGED <<notClient, clientInputs, clientHist, cidx, ccur, cpage, cdata, cstatus,
                   cout, cyield, craised, cret>>

\* fetch_facilities_metrics(facilities, metrics, start, end, interval), up to
\* the first request or, with nothing to request, to the end of the generator
CallBulk(facilities, metrics, start, end, interval) ==
    /\ cphase = "idle"
    /\ cop' = "bulk"
    /\ cstart' = start
    /\ cend' = end
    /\ cint' = interval
    /\ cmetrics' = FacilityMetrics(metrics)
    /\ cplan' = IF FacilityMetrics(metrics) = <<>>
                THEN <<>>
                ELSE BulkPlan(FacilityMetrics(metrics),
                              DateWindows(start, end, MaxRange(interval)),
                              FacilityCodes(facilities))
    /\ cfacilities' = facilities
    /\ cidx' = 1
    /\ cphase' = IF cplan' = <<>> THEN "done" ELSE "ready"
    /\ UNCHANGED <<notClient, clientHist, ccur, cpage, cdata, cstatus, cout, cyield,
                   craised, cret>>

\* fetch_network_data(metrics, start, end, interval), up to the first request
CallNetwork(metrics, start, end, interval) ==
    /\ cphase = "idle"
    /\ cop' = "network"
    /\ cstart' = start
    /\ cend' = end
    /\ cint' = interval
    /\ cmetrics' = metrics
    /\ ccur' = start
    /\ cphase' = IF SplitNeeded(start, end, MaxRange(interval)) /\ ~(start < end)
                 THEN "done" ELSE "ready"
    /\ UNCHANGED <<notClient, clientHist, cplan, cfacilities, cidx, cpage, cdata, cstatus,
                   cout, cyield, craised, cret>>

\* fetch_facility_metrics(facility_code, metrics, start, end, interval), up to
\* the first request
CallSingle(metrics, start, end, interval) ==
    /\ cphase = "idle"
    /\ cop' = "single"
    /\ cstart' = start
    /\ cend' = end
    /\ cint' = interval
    /\ cmetrics' = metrics
    /\ ccur' = start
    /\ cidx' = 1
    /\ cpage' = 1
    /\ cphase' = IF SplitNeeded(start, end, MaxRange(interval)) /\ ~(start < end)
                 THEN "done" ELSE "ready"
    /\ UNCHANGED <<notClient, clientHist, cplan, cfacilities, cdata, cstatus, cout, cyield,
                   craised, cret>>

\* the end of the sub-window the lazy fetches are working on
CurrentEnd ==
    IF SplitNeeded(cstart, cend, MaxRange(cint))
    THEN WindowEnd(ccur, cend, MaxRange(cint))
    ELSE cend

\* what identifies the request the client is about to issue
CurrentRequest ==
    CASE cop = "catalog" -> <<"catalog">>
      [] cop = "bulk" -> <<"bulk", cplan[cidx], Batch(FacilityCodes(cfacilities), cplan[cidx][3])>>
      [] cop = "network" -> <<"network", ccur, CurrentEnd>>
      [] OTHER -> <<"single", ccur, CurrentEnd, cidx, cpage>>

\* a client that sends the next request while it waits for a response
MayIssueWhileWaiting == cphase \in {"ready", "wait"}

\* session.request is a blocking call: the loops of the client reach the
\* next _request only after the previous one has returned or raised
MayIssue == cphase = "ready"

\* _request: self.session.request(method, url, params=params, timeout=30)
ClientIssue ==
    /\ MayIssue
    /\ cphase' = "wait"
    /\ inflight' = inflight + 1
    /\ nreq' = nreq + 1
    /\ nchains' = IF cop = "single" /\ cpage = 1 THEN nchains + 1 ELSE nchains
    /\ dupIssued' = (dupIssued \/ CurrentRequest \in reqSeen)
    /\ reqSeen' = reqSeen \cup {CurrentRequest}
    /\ UNCHANGED <<notClient, clientInputs, cop, cidx, ccur, cpage, cdata, cstatus, cout,
                   cyield, had404, craised, cret>>

\* fetch_facilities: the response of the catalog endpoint
CatalogReceive(status, facilities) ==
    /\ cphase = "wait"
    /\ cop = "catalog"
    /\ inflight' = inflight - 1
    /\ cstatus' = status
    /\ had404' = (had404 \/ status = 404)
    /\ cout' = CatalogOutcome(status)
    /\ IF CatalogOutcome(status) = "return"
       THEN /\ cret' = facilities
            /\ cphase' = "done"
            /\ UNCHANGED craised
       ELSE /\ craised' = status
            /\ cphase' = "raised"
            /\ UNCHANGED cret
    /\ UNCHANGED <<notClient, clientInputs, cop, cidx, ccur, cpage, cdata, cyield, nreq,
                   nchains, reqSeen, dupIssued>>

\* fetch_facilities_metrics: the response to one (metric, window, batch)
\* request; its points are yielded, or the batch is skipped, or the error raised
BulkReceive(status, npoints) ==
    /\ cphase = "wait"
    /\ cop = "bulk"
    /\ inflight' = inflight - 1
    /\ cstatus' = status
    /\ had404' = (had404 \/ status = 404)
    /\ cout' = BulkOutcome(status)
    /\ cyield' = IF BulkOutcome(status) = "yield" THEN npoints ELSE 0
    /\ IF BulkOutcome(status) = "raise"
       THEN /\ craised' = status
            /\ cphase' = "raised"
            /\ UNCHANGED cidx
       ELSE /\ cidx' = BulkAdvance(cidx, status)
            /\ cphase' = IF cidx' > Len(cplan) THEN "done" ELSE "ready"
            /\ UNCHANGED craised
    /\ UNCHANGED <<notClient, clientInputs, cop, ccur, cpage, cdata, nreq, nchains, reqSeen,
                   dupIssued, cret>>

\* fetch_network_data: the response to the request of one sub-window
NetworkReceive(status, npoints) ==
    /\ cphase = "wait"
    /\ cop = "network"
    /\ inflight' = inflight - 1
    /\ cstatus' = status
    /\ had404' = (had404 \/ status = 404)
    /\ cout' = NetworkOutcome(status)
    /\ cyield' = IF NetworkOutcome(status) = "yield" THEN npoints ELSE 0
    /\ IF NetworkOutcome(status) = "raise"
       THEN /\ craised' = status
            /\ cphase' = "raised"
            /\ UNCHANGED ccur
       ELSE /\ ccur' = CurrentEnd
            /\ cphase' = IF SplitNeeded(cstart, cend, MaxRange(cint)) /\ CurrentEnd < cend
                         THEN "ready" ELSE "done"
            /\ UNCHANGED craised
    /\ UNCHANGED <<notClient, clientInputs, cop, cidx, cpage, cdata, nreq, nchains, reqSeen,
                   dupIssued, cret>>

\* a generator that yields the pages it holds when a later page fails
ChainYieldPartial(outcome, held, npoints) ==
    IF outcome = "yield" THEN held + npoints ELSE held

\* `for item in data: ... yield record` is reached only when every page of the
\* chain has been received; an exception of _request leaves the try block
\* before it, and `data` is lost
ChainYield(outcome, held, npoints) ==
    IF outcome = "yield" THEN held + npoints ELSE 0

\* _fetch_facility_metrics_single: the response to one page of the chain of
\* one metric.  A page with a cursor leads to the request of the next page;
\* the last page yields the chain's points; an error drops them and goes on
\* with the next metric, then with the next sub-window.  `while next_path:`
\* has no limit of its own; the pages and the points held are counted up to
\* MaxPages
SingleHandle(status, npoints, hasNext) ==
    /\ cphase = "wait"
    /\ cop = "single"
    /\ inflight' = inflight - 1
    /\ cstatus' = status
    /\ had404' = (had404 \/ status = 404)
    /\ cout' = IF SingleOutcome(status) = "yield" /\ hasNext THEN "page" ELSE SingleOutcome(status)
    /\ UNCHANGED craised
    /\ IF SingleOutcome(status) = "yield" /\ hasNext
       THEN /\ cdata' = Min(cdata + npoints, MaxPages)
            /\ cpage' = Min(cpage + 1, MaxPages)
            /\ cyield' = 0
            /\ cphase' = "ready"
            /\ UNCHANGED <<cidx, ccur>>
       ELSE /\ cyield' = ChainYield(SingleOutcome(status), cdata, npoints)
            /\ cdata' = 0
            /\ cpage' = 1
            /\ IF cidx < Len(cmetrics)
               THEN /\ cidx' = cidx + 1
                    /\ cphase' = "ready"
                    /\ UNCHANGED ccur
               ELSE /\ cidx' = 1
                    /\ ccur' = CurrentEnd
                    /\ cphase' = IF SplitNeeded(cstart, cend, MaxRange(cint)) /\ CurrentEnd < cend
                                 THEN "ready" ELSE "done"
    /\ UNCHANGED <<notClient, clientInputs, cop, nreq, nchains, reqSeen, dupIssued, cret>>

\* the responses of a server whose cursor chains end by page MaxPages
SingleReceive(status, npoints, hasNext) ==
    /\ hasNext => cpage < MaxPages
    /\ SingleHandle(status, npoints, hasNext)

\* _request as ClientIssue models it, without the history of the requests
PageIssue ==
    /\ MayIssue
    /\ cphase' = "wait"
    /\ inflight' = inflight + 1
    /\ UNCHANGED <<notClient, clientInputs, cop, cidx, ccur, cpage, cdata, cstatus, cout,
                   cyield, had404, craised, cret, nreq, nchains, reqSeen, dupIssued>>

\* the caller has the result (or the error); the client is idle again
ClientReset ==
    /\ cphase \in {"done", "raised"}
    /\ cop' = "none"
    /\ cphase' = "idle"
    /\ cstart' = 0
    /\ cend' = 0
    /\ cint' = "5m"
    /\ cmetrics' = <<>>
    /\ cplan' = <<>>
    /\ cfacilities' = <<>>
    /\ cidx' = 0
    /\ ccur' = 0
    /\ cpage' = 0
    /\ cdata' = 0
    /\ cstatus' = 0
    /\ cout' = "none"
    /\ cyield' = 0
    /\ nreq' = 0
    /\ nchains' = 0
    /\ reqSeen' = {}
    /\ dupIssued' = FALSE
    /\ had404' = FALSE
    /\ craised' = 0
    /\ cret' = <<>>
    /\ inflight' = 0
    /\ UNCHANGED notClient

ClientIntervals == {"5m", "1h", "PT5M"}

\* the requested ranges, in days, and the number of points of a response
FetchSpans == {1, 7, 8, 15}
PointCounts == {0, 1}

ClientNext ==
    \/ CallCatalog
    \/ \E facilities \in FacilityLists, metrics \in MetricLists, span \in FetchSpans,
          interval \in ClientIntervals : CallBulk(facilities, metrics, 0, span, interval)
    \/ \E metrics \in MetricLists, span \in FetchSpans, interval \in ClientIntervals :
          CallNetwork(metrics, 0, span, interval)
    \/ \E metrics \in MetricLists, span \in FetchSpans, interval \in ClientIntervals :
          CallSingle(metrics, 0, span, interval)
    \/ ClientIssue
    \/ \E status \in Statuses, facilities \in FacilityLists : CatalogReceive(status, facilities)
    \/ \E status \in Statuses, npoints \in PointCounts : BulkReceive(status, npoints)
    \/ \E status \in Statuses, npoints \in PointCounts : NetworkReceive(status, npoints)
    \/ \E status \in Statuses, npoints \in PointCounts, hasNext \in BOOLEAN :
          SingleReceive(status, npoints, hasNext)
    \/ ClientReset

(***************************************************************************)
(* Tables.  A cell is a record [k, v]: a number, NaN, a timestamp, a       *)
(* string (a facility code), or a number put in by interpolation; a table  *)
(* is [cols |-> sequence of column names, rows |-> sequence of rows], a    *)
(* row being a function from the column names to cells.                    *)
(***************************************************************************)
NaN == [k |-> "nan", v |-> 0]
Num(v) == [k |-> "num", v |-> v]
Time(t) == [k |-> "time", v |-> t]
Str(i) == [k |-> "str", v |-> i]
Filled == [k |-> "filled", v |-> 0]

EmptyTable == [cols |-> <<>>, rows |-> <<>>]
IsEmpty(df) == df.rows = <<>>
ColSet(df) == {df.cols[i] : i \in 1..Len(df.cols)}
SeqSet(seq) == {seq[i] : i \in 1..Len(seq)}

RECURSIVE SumSeq(_)
SumSeq(seq) == IF seq = <<>> THEN 0 ELSE Head(seq) + SumSeq(Tail(seq))

RECURSIVE KeySeq(_)
\* the keys (facility, timestamp) in the order of sort_values("timestamp")
KeySeq(keys) ==
    IF keys = {} THEN <<>>
    ELSE LET first == CHOOSE x \in keys : \A y \in keys :
                          x[2] < y[2] \/ (x[2] = y[2] /\ x[1] <= y[1])
         IN  <<first>> \o KeySeq(keys \ {first})

(***************************************************************************)
(* data_processing.py                                                      *)
(***************************************************************************)
\* A raw record is [fid, metric, ts, value]: fid = 0 is a record without
\* facility_id, metric = "" a record without metric name.
\* _extract_timestamp: a record with none of TIMESTAMP_FIELDS (ts = -1)
\* raises KeyError; a text that is no ISO date (ts = -2) raises the
\* ValueError of datetime.fromisoformat
HasTimestamp(record) == record.ts # -1
TimestampParses(record) == record.ts # -2

\* _extract_value: a record with none of VALUE_FIELDS (value = -1) raises
\* KeyError; content that float() rejects (value = -2) gives NaN
HasValue(record) == record.value # -1
_extract_value(record) == IF record.value = -2 THEN NaN ELSE Num(record.value)

\* an extraction that skips a record only when both fields are missing
ExtractedEither(record) == HasTimestamp(record) \/ HasValue(record)

\* the try block of the loop: the KeyError of either extractor skips the
\* record
Extracted(record) == HasTimestamp(record) /\ HasValue(record)

\* the ValueError of a timestamp that does not parse is not caught
NormaliseRaises(records) ==
    \E i \in 1..Len(records) : HasTimestamp(records[i]) /\ ~TimestampParses(records[i])

\* a coercion that drops the record whose value is no number
KeepsNumbersOnly(row) == row.metric # "" /\ row.value # NaN

\* df.dropna(subset=["metric", "timestamp"])
HasMetric(row) == row.metric # ""

\* the rows of the frame normalise_timeseries_records returns
normalise_timeseries_records(records) ==
    LET kept == SelectSeq(records, Extracted)
        rows == [i \in 1..Len(kept) |->
                   [fid |-> kept[i].fid, metric |-> kept[i].metric, ts |-> kept[i].ts,
                    value |-> _extract_value(kept[i])]]
    IN  SelectSeq(rows, HasMetric)

\* aggfunc="mean" over the values of one (key, metric); the mean skips NaN
MeanCell(rows, key, metric) ==
    LET IsHit(r) == <<r.fid, r.ts>> = key /\ r.metric = metric /\ r.value # NaN
        hits == SelectSeq(rows, IsHit)
    IN  IF hits = <<>> THEN NaN
        ELSE Num(SumSeq([i \in 1..Len(hits) |-> hits[i].value.v]) \div Len(hits))

\* pivot_table(dropna=True) drops the (key, metric) groups whose mean is NaN
\* before it unstacks the metrics
IsValued(row) == row.value # NaN
Valued(rows) == SelectSeq(rows, IsValued)

\* the metric columns of a pivot, in the alphabetical order of pivot_table
MetricOrder == <<"demand", "emissions", "power", "price">>
MetricCols(rows) ==
    LET IsPresent(m) == \E i \in 1..Len(rows) : rows[i].metric = m /\ IsValued(rows[i])
    IN  SelectSeq(MetricOrder, IsPresent)

\* pivot_metrics over rows that carry facility_id: one row per
\* (facility_id, timestamp) that has a value, sorted by timestamp
pivot_metrics(rows) ==
    IF rows = <<>> THEN EmptyTable
    ELSE LET valued == Valued(rows)
             keys == KeySeq({<<valued[i].fid, valued[i].ts>> : i \in 1..Len(valued)})
             mcols == MetricCols(rows)
             cols == <<"facility_id", "timestamp">> \o mcols
         IN  [cols |-> cols,
              rows |-> [i \in 1..Len(keys) |->
                          [c \in SeqSet(cols) |->
                              CASE c = "facility_id" -> Str(keys[i][1])
                                [] c = "timestamp" -> Time(keys[i][2])
                                [] OTHER -> MeanCell(rows, keys[i], c)]]]

\* the pivot on timestamp alone of rows without facility_id
PivotByTimestamp(rows) ==
    IF rows = <<>> THEN EmptyTable
    ELSE LET valued == Valued(rows)
             keys == KeySeq({<<0, valued[i].ts>> : i \in 1..Len(valued)})
             mcols == MetricCols(rows)
             cols == <<"timestamp">> \o mcols
         IN  [cols |-> cols,
              rows |-> [i \in 1..Len(keys) |->
                          [c \in SeqSet(cols) |->
                              IF c = "timestamp" THEN Time(keys[i][2])
                              ELSE MeanCell([j \in 1..Len(rows) |-> [rows[j] EXCEPT !.fid = 0]],
                                            keys[i], c)]]]

\* a merge that adds the network columns without their values
MergeWithoutValues(left, right) ==
    LET IsNetCol(c) == c \in {"price", "demand"}
        cols == left.cols \o SelectSeq(right.cols, IsNetCol)
    IN  [cols |-> cols,
         rows |-> [i \in 1..Len(left.rows) |->
                     [c \in SeqSet(cols) |->
                         IF c \in ColSet(left) THEN left.rows[i][c] ELSE NaN]]]

\* facility_pivoted.merge(network_pivoted[["timestamp", price, demand]],
\* on="timestamp", how="left"); the model's network pivot has one row per
\* timestamp
LeftMergeOnTimestamp(left, right) ==
    LET IsNetCol(c) == c \in {"price", "demand"}
        extra == SelectSeq(right.cols, IsNetCol)
        cols == left.cols \o extra
        Match(row) == {j \in 1..Len(right.rows) : right.rows[j]["timestamp"] = row["timestamp"]}
    IN  [cols |-> cols,
         rows |-> [i \in 1..Len(left.rows) |->
                     [c \in SeqSet(cols) |->
                         IF c \in ColSet(left) THEN left.rows[i][c]
                         ELSE IF Match(left.rows[i]) = {} THEN NaN
                         ELSE right.rows[CHOOSE j \in Match(left.rows[i]) : TRUE][c]]]]

\* merged[numeric_cols].interpolate(limit_direction="both"): a NaN of a
\* numeric column that has a number becomes a number
Interpolate(df) ==
    LET HasNumber(c) == \E i \in 1..Len(df.rows) : df.rows[i][c].k \in {"num", "filled"}
    IN  [cols |-> df.cols,
         rows |-> [i \in 1..Len(df.rows) |->
                     [c \in ColSet(df) |->
                         IF df.rows[i][c] = NaN /\ HasNumber(c) THEN Filled
                         ELSE df.rows[i][c]]]]

RECURSIVE LeftMergeOnFacility(_, _)
\* consolidated.merge(metadata, on="facility_id", how="left"): a row of the
\* left table gives one row per metadata row of its facility, in the order
\* of the left table, and one row without metadata when there is none; the
\* metadata is a sequence of [fid, lat]
LeftMergeOnFacility(rows, metadata) ==
    IF rows = <<>> THEN <<>>
    ELSE LET row == Head(rows)
             IsMatch(m) == Str(m.fid) = row["facility_id"]
             hits == SelectSeq(metadata, IsMatch)
             With(lat) == [c \in DOMAIN row \cup {"latitude"} |->
                              IF c = "latitude" THEN lat ELSE row[c]]
         IN  (IF hits = <<>> THEN <<With(NaN)>>
              ELSE [j \in 1..Len(hits) |-> With(hits[j].lat)])
             \o LeftMergeOnFacility(Tail(rows), metadata)

\* merge_with_metadata: the left join on facility_id with the metadata
\* table, then the interpolation
merge_with_metadata(consolidated, metadata) ==
    IF IsEmpty(consolidated) THEN consolidated
    ELSE Interpolate([cols |-> consolidated.cols \o <<"latitude">>,
                      rows |-> LeftMergeOnFacility(consolidated.rows, metadata)])

OptionalMetrics == <<"price", "demand">>

\* a filter that keeps every optional column the table has
KeepColumnsPresent(df) ==
    LET InDf(c) == c \in ColSet(df)
    IN  <<"facility_id", "timestamp">>
        \o SelectSeq(<<"power", "emissions">>, InDf)
        \o SelectSeq(OptionalMetrics, InDf)
        \o SelectSeq(<<"latitude">>, InDf)

\* filter_by_optional_metrics: keep_columns
KeepColumns(df) ==
    LET InDf(c) == c \in ColSet(df)
        NotNull(c) == InDf(c) /\ \E i \in 1..Len(df.rows) : df.rows[i][c] # NaN
    IN  <<"facility_id", "timestamp">>
        \o SelectSeq(<<"power", "emissions">>, InDf)
        \o SelectSeq(OptionalMetrics, NotNull)
        \o SelectSeq(<<"latitude">>, InDf)

\* df.loc[:, keep_columns] raises KeyError for a label that is no column
FilterRaises(df) == ~(SeqSet(KeepColumns(df)) \subseteq ColSet(df))

filter_by_optional_metrics(df) ==
    [cols |-> KeepColumns(df),
     rows |-> [i \in 1..Len(df.rows) |->
                 [c \in SeqSet(KeepColumns(df)) |-> df.rows[i][c]]]]

(***************************************************************************)
(* caching.py                                                              *)
(***************************************************************************)
\* start.date(), end.date(): the times are in ticks of half a day
DateOf(t) == t \div TicksPerDay

\* build_cache_path: the tag is f"{start.date()}_{end.date()}"
build_cache_path(start, end) == <<DateOf(start), DateOf(end)>>

\* to_csv: the text of a cell; NaN is written as the empty field
CellToCsv(cell) ==
    CASE cell.k = "nan" -> [k |-> "empty", v |-> 0]
      [] cell.k = "num" -> [k |-> "digits", v |-> cell.v]
      [] cell.k = "filled" -> [k |-> "digits_filled", v |-> 0]
      [] cell.k = "time" -> [k |-> "isotext", v |-> cell.v]
      [] OTHER -> [k |-> "letters", v |-> cell.v]

\* read_csv without parse_dates: the timestamp column stays text
CellFromCsvNoDates(col, text) ==
    CASE text.k = "empty" -> NaN
      [] text.k = "digits" -> Num(text.v)
      [] text.k = "digits_filled" -> Filled
      [] OTHER -> Str(text.v)

\* read_csv(parse_dates=["timestamp"]): the empty field is NaN, digits are
\* a number, the timestamp column is parsed, other text stays a string
CellFromCsv(col, text) ==
    CASE text.k = "empty" -> NaN
      [] text.k = "digits" -> Num(text.v)
      [] text.k = "digits_filled" -> Filled
      [] text.k = "isotext" -> IF col = "timestamp" THEN Time(text.v) ELSE Str(text.v)
      [] OTHER -> Str(text.v)

\* df.to_csv(path, index=False): the header and one line per row
ToCsv(df) ==
    [header |-> df.cols,
     lines |-> [i \in 1..Len(df.rows) |->
                  [j \in 1..Len(df.cols) |-> CellToCsv(df.rows[i][df.cols[j]])]]]

\* pd.read_csv(path, parse_dates=["timestamp"])
read_cached_dataset(file) ==
    [cols |-> file.header,
     rows |-> [i \in 1..Len(file.lines) |->
                 [c \in SeqSet(file.header) |->
                     LET j == CHOOSE n \in 1..Len(file.header) : file.header[n] = c
                     IN  CellFromCsv(c, file.lines[i][j])]]]

Absent == [header |-> <<"absent">>, lines |-> <<>>]

(***************************************************************************)
(* What the remote service holds: records of the facility endpoint and of  *)
(* the network endpoint                                                    *)
(***************************************************************************)
PointSets == {{}, {<<1, 1>>}, {<<1, 1>>, <<2, 1>>}, {<<1, 1>>, <<1, 2>>}}

ValueOf(fid, ts, metric) == 10 * fid + ts + (IF metric = "power" THEN 0 ELSE 100)

\* the records fetch_facilities_metrics yields: metric by metric; with gap
\* the first point has no emissions value
FacilityRecords(points, fm, gap) ==
    LET keys == KeySeq(points)
        Keep(m, i) == ~(gap /\ m = "emissions" /\ i = 1)
        PerMetric(m) ==
            LET all == [i \in 1..Len(keys) |->
                          [fid |-> keys[i][1], metric |-> m, ts |-> keys[i][2],
                           value |-> ValueOf(keys[i][1], keys[i][2], m)]]
                IsKept(r) == Keep(m, CHOOSE i \in 1..Len(keys) : keys[i] = <<r.fid, r.ts>>)
            IN  SelectSeq(all, IsKept)
    IN  IF Len(fm) = 0 THEN <<>>
        ELSE IF Len(fm) = 1 THEN PerMetric(fm[1])
        ELSE PerMetric(fm[1]) \o PerMetric(fm[2])

\* the records fetch_network_data yields for nts timestamps; they carry no
\* facility_id (fid = 0)
NetworkRecords(nts, nm) ==
    IF Len(nm) = 0 THEN <<>>
    ELSE [i \in 1..nts |-> [fid |-> 0, metric |-> nm[1], ts |-> i, value |-> ValueOf(0, i, nm[1])]]

(***************************************************************************)
(* retrieval.py: retrieve_and_cache_dataset                                *)
(***************************************************************************)
IsNetworkMetric(m) == m \in {"price", "demand"}
NetworkLevelMetrics(metrics) == SelectSeq(metrics, IsNetworkMetric)

\* the consolidation of the facility branch, from the normalised rows
Consolidate(normalised) ==
    LET HasFid(r) == r.fid # 0
        IsNet(r) == r.fid = 0 \/ IsNetworkMetric(r.metric)
        facility_df == SelectSeq(normalised, HasFid)
        network_df == SelectSeq(normalised, IsNet)
        facility_pivoted == pivot_metrics(facility_df)
        network_pivoted == PivotByTimestamp(network_df)
    IN  IF facility_df # <<>>
        THEN IF network_df # <<>>
             THEN IF ~IsEmpty(facility_pivoted) /\ ~IsEmpty(network_pivoted)
                  THEN LeftMergeOnTimestamp(facility_pivoted, network_pivoted)
                  ELSE IF ~IsEmpty(facility_pivoted) THEN facility_pivoted ELSE network_pivoted
             ELSE facility_pivoted
        ELSE PivotByTimestamp(normalised)

\* the metadata step: a missing metadata file (meta.file = FALSE) skips the
\* merge; the merge on facility_id raises KeyError without that column
MergeRaises(consolidated, meta) ==
    meta.file /\ ~IsEmpty(consolidated) /\ "facility_id" \notin ColSet(consolidated)

Merged(consolidated, meta) ==
    IF meta.file THEN merge_with_metadata(consolidated, meta.rows) ELSE consolidated

\* the metadata file: absent; without the facility; with the facility
MetaChoices ==
    {[file |-> FALSE, rows |-> <<>>],
     [file |-> TRUE, rows |-> <<>>],
     [file |-> TRUE, rows |-> <<[fid |-> 1, lat |-> Num(1)]>>]}

\* the cache test with the existence check inverted
CacheHitInverted(use_cache, file) == use_cache /\ file = Absent

\* use_cache and cache_path.exists()
CacheHit(use_cache, file) == use_cache /\ file # Absent

\* the first step after a cache miss
FirstFetch(args) ==
    IF args.facility
    THEN IF FacilityMetrics(args.metrics) # <<>> THEN "catalog"
         ELSE IF NetworkLevelMetrics(args.metrics) # <<>> THEN "net_series" ELSE "process"
    ELSE "net_series"

RetrArgs ==
    [start : {0}, end : {2, 4}, metrics : {<<"power", "emissions">>, <<"power", "price">>},
     use_cache : BOOLEAN, allow_partial : BOOLEAN, facility : BOOLEAN]

NoArgs ==
    [start |-> 0, end |-> 0, metrics |-> <<>>, use_cache |-> FALSE, allow_partial |-> FALSE,
     facility |-> FALSE]

CachePaths == {build_cache_path(a.start, a.end) : a \in RetrArgs}

RetrInit ==
    /\ cache = [path \in CachePaths |-> Absent]
    /\ rpc = "idle"
    /\ rargs = NoArgs
    /\ rrecords = <<>>
    /\ rclean = EmptyTable
    /\ rresult = EmptyTable
    /\ rhit = FALSE
    /\ rreqs = 0
    /\ rwrites = 0
    /\ rrepeat = FALSE
    /\ prevOutcome = "none"
    /\ prevFetched = FALSE
    /\ prevResult = EmptyTable
    /\ ncalls = 0

\* history of the call that ended last, kept when this call repeats it
SameRequest(a, b) ==
    /\ a.start = b.start /\ a.end = b.end /\ a.metrics = b.metrics
    /\ a.use_cache /\ b.use_cache

\* retrieve_and_cache_dataset is entered: the cache is consulted
RetrEnter(args) ==
    /\ rpc \in {"idle", "returned", "raised"}
    /\ rargs' = args
    /\ ncalls' = ncalls + 1
    /\ rrepeat' = (rpc # "idle" /\ SameRequest(rargs, args))
    /\ prevOutcome' = IF rpc = "idle" THEN "none"
                      ELSE IF rpc = "raised" THEN "raised"
                      ELSE IF IsEmpty(rresult) /\ ~rhit /\ rwrites = 0 THEN "empty" ELSE "table"
    /\ prevFetched' = (rreqs > 0)
    /\ prevResult' = IF rpc = "returned" /\ SameRequest(rargs, args) THEN rresult ELSE EmptyTable
    /\ rrecords' = <<>>
    /\ rclean' = EmptyTable
    /\ rreqs' = 0
    /\ rwrites' = 0
    /\ UNCHANGED cache
    /\ IF CacheHit(args.use_cache, cache[build_cache_path(args.start, args.end)])
       THEN /\ rresult' = read_cached_dataset(cache[build_cache_path(args.start, args.end)])
            /\ rhit' = TRUE
            /\ rpc' = "returned"
       ELSE /\ rresult' = EmptyTable
            /\ rhit' = FALSE
            /\ rpc' = FirstFetch(args)

\* a caller other than the run loop calls the orchestrator
RetrCall(args) ==
    /\ upc = "idle"
    /\ ncalls < MaxCalls
    /\ RetrEnter(args)
    /\ UNCHANGED <<notRetr, runVars>>

retrCall == <<rargs, rrepeat, prevOutcome, prevFetched, prevResult, ncalls>>

\* client.fetch_facilities(), pulled by the normaliser from combined_records
RetrCatalog(status) ==
    /\ rpc = "catalog"
    /\ rreqs' = rreqs + 1
    /\ rpc' = IF CatalogOutcome(status) = "return" THEN "fac_series" ELSE "raised"
    /\ UNCHANGED <<notRetr, runVars, retrCall, cache, rrecords, rclean, rresult, rhit, rwrites>>

\* client.fetch_facilities_metrics(...) consumed to its end, or to the error
\* it raises
RetrFacilitySeries(raises, points, gap) ==
    /\ rpc = "fac_series"
    /\ rreqs' = rreqs + 1
    /\ IF raises
       THEN /\ rpc' = "raised"
            /\ UNCHANGED rrecords
       ELSE /\ rrecords' = rrecords \o FacilityRecords(points, FacilityMetrics(rargs.metrics), gap)
            /\ rpc' = IF NetworkLevelMetrics(rargs.metrics) # <<>> THEN "net_series" ELSE "process"
    /\ UNCHANGED <<notRetr, runVars, retrCall, cache, rclean, rresult, rhit, rwrites>>

\* client.fetch_network_data(...) consumed to its end, or to the error it
\* raises
RetrNetworkSeries(raises, nts) ==
    /\ rpc = "net_series"
    /\ rreqs' = rreqs + 1
    /\ IF raises
       THEN /\ rpc' = "raised"
            /\ UNCHANGED rrecords
       ELSE /\ rrecords' = rrecords \o
                  NetworkRecords(nts, IF rargs.facility THEN NetworkLevelMetrics(rargs.metrics)
                                      ELSE rargs.metrics)
            /\ rpc' = "process"
    /\ UNCHANGED <<notRetr, runVars, retrCall, cache, rclean, rresult, rhit, rwrites>>

\* an empty-result policy that raises whatever the caller asked for
EmptyAlwaysRaises(allow_partial) == "raised"

\* an empty-result policy that goes on to the cache write under tolerance
EmptyResultCached(allow_partial) == IF allow_partial THEN "write" ELSE "raised"

\* `if normalised.empty:` return normalised if allow_partial, else raise
\* RuntimeError
EmptyResultPolicy(allow_partial) == IF allow_partial THEN "returned" ELSE "raised"

\* normalise, the empty-result policy, pivot, metadata merge and the
\* optional-metric filter
RetrProcess(meta) ==
    /\ rpc = "process"
    /\ LET normalised == normalise_timeseries_records(rrecords)
           consolidated == IF rargs.facility THEN Consolidate(normalised)
                           ELSE PivotByTimestamp(normalised)
           merged == IF rargs.facility THEN Merged(consolidated, meta) ELSE consolidated
       IN  IF NormaliseRaises(rrecords)
           THEN /\ rpc' = "raised"
                /\ UNCHANGED <<rclean, rresult>>
           ELSE IF normalised = <<>>
           THEN /\ rpc' = EmptyResultPolicy(rargs.allow_partial)
                /\ rresult' = EmptyTable
                /\ UNCHANGED rclean
           ELSE IF (rargs.facility /\ MergeRaises(consolidated, meta)) \/ FilterRaises(merged)
           THEN /\ rpc' = "raised"
                /\ UNCHANGED <<rclean, rresult>>
           ELSE /\ rclean' = filter_by_optional_metrics(merged)
                /\ rpc' = "write"
                /\ UNCHANGED rresult
    /\ UNCHANGED <<notRetr, runVars, retrCall, cache, rrecords, rhit, rreqs, rwrites>>

\* the return of cleaned without the cache write
RetrWriteNoCache ==
    /\ rpc = "write"
    /\ rresult' = rclean
    /\ rpc' = "returned"
    /\ UNCHANGED <<notRetr, runVars, retrCall, cache, rrecords, rclean, rhit, rreqs, rwrites>>

\* a write that clears the other entries of the cache directory
WriteEvictsOthers(files, df, path) ==
    [q \in DOMAIN files |-> IF q = path THEN ToCsv(df) ELSE Absent]

\* df.to_csv(path, index=False): the file at path is created or replaced
write_dataset_to_cache(files, df, path) == [files EXCEPT ![path] = ToCsv(df)]

\* write_dataset_to_cache(cleaned, cache_path); return cleaned
RetrWrite ==
    /\ rpc = "write"
    /\ cache' = write_dataset_to_cache(cache, rclean, build_cache_path(rargs.start, rargs.end))
    /\ rwrites' = rwrites + 1
    /\ rresult' = rclean
    /\ rpc' = "returned"
    /\ UNCHANGED <<notRetr, runVars, retrCall, rrecords, rclean, rhit, rreqs>>

RetrSteps ==
    \/ \E status \in Statuses : RetrCatalog(status)
    \/ \E raises \in BOOLEAN, points \in PointSets, gap \in BOOLEAN :
          RetrFacilitySeries(raises, points, gap)
    \/ \E raises \in BOOLEAN, nts \in 0..1 : RetrNetworkSeries(raises, nts)
    \/ \E meta \in MetaChoices : RetrProcess(meta)
    \/ RetrWrite

RetrNext ==
    \/ \E args \in RetrArgs : RetrCall(args)
    \/ RetrSteps

(***************************************************************************)
(* main.py: run_pipeline.  The retrieval of an iteration is the            *)
(* orchestrator above; publish_dataset is one step that returns or raises. *)
(***************************************************************************)
RunArgs ==
    [iterations : 0..2, disable_cache : BOOLEAN, allow_partial : BOOLEAN,
     use_facility_endpoint : BOOLEAN]

NoRunArgs ==
    [iterations |-> 0, disable_cache |-> FALSE, allow_partial |-> FALSE,
     use_facility_endpoint |-> FALSE]

RunInit ==
    /\ upc = "idle"
    /\ uargs = NoRunArgs
    /\ iteration = 0
    /\ ucycles = 0
    /\ ufail = "none"

\* the arguments run_pipeline passes to retrieve_and_cache_dataset
RunRetrArgs(args) ==
    [start |-> 0, end |-> 2, metrics |-> <<"power", "emissions">>,
     use_cache |-> ~args.disable_cache, allow_partial |-> args.allow_partial,
     facility |-> args.use_facility_endpoint]

\* "latitude" not in df.columns or df["latitude"].isna().all()
LatitudeMissing(df) ==
    \/ "latitude" \notin ColSet(df)
    \/ \A i \in 1..Len(df.rows) : df.rows[i]["latitude"] = NaN

\* run_pipeline(args): iteration = 0
RunStart(args) ==
    /\ upc = "idle"
    /\ rpc = "idle"
    /\ upc' = "loop"
    /\ uargs' = args
    /\ iteration' = 0
    /\ UNCHANGED <<notRetr, retrVars, ucycles, ufail>>

\* the top of the while loop: iteration += 1 and the orchestrator is called
RunIterate ==
    /\ upc = "loop"
    /\ iteration < MaxIter
    /\ iteration' = iteration + 1
    /\ RetrEnter(RunRetrArgs(uargs))
    /\ upc' = "retrieving"
    /\ UNCHANGED <<notRetr, uargs, ucycles, ufail>>

\* the orchestrator returned df: an empty df is logged, a df without
\* latitudes goes to the catalog enrichment, any other df is published
RunRetrieved ==
    /\ upc = "retrieving"
    /\ rpc = "returned"
    /\ upc' = IF IsEmpty(rresult) THEN "check"
              ELSE IF LatitudeMissing(rresult) THEN "enrich" ELSE "publish"
    /\ UNCHANGED <<notRetr, retrVars, uargs, iteration, ucycles, ufail>>

\* the orchestrator raised: run_pipeline has no handler, the exception
\* leaves the loop and the function
RunRetrieveFailed ==
    /\ upc = "retrieving"
    /\ rpc = "raised"
    /\ upc' = "failed"
    /\ ufail' = "retrieve"
    /\ UNCHANGED <<notRetr, retrVars, uargs, iteration, ucycles>>

\* from .retrieval import _normalise_facility_catalog: retrieval.py defines
\* no such name, the import raises ImportError
RunEnrich ==
    /\ upc = "enrich"
    /\ upc' = "failed"
    /\ ufail' = "enrich"
    /\ UNCHANGED <<notRetr, retrVars, uargs, iteration, ucycles>>

\* publish_dataset(df, config.mqtt, delay_seconds=0.1) returns or raises
RunPublish(raises) ==
    /\ upc = "publish"
    /\ upc' = IF raises THEN "failed" ELSE "check"
    /\ ufail' = IF raises THEN "publish" ELSE ufail
    /\ UNCHANGED <<notRetr, retrVars, uargs, iteration, ucycles>>

\* args.iterations and iteration >= args.iterations
StopReached(iterations, n) == iterations # 0 /\ n >= iterations

\* the end of the loop body: break, or go to sleep
RunCheck ==
    /\ upc = "check"
    /\ ucycles' = ucycles + 1
    /\ upc' = IF StopReached(uargs.iterations, iteration) THEN "done" ELSE "sleep"
    /\ UNCHANGED <<notRetr, retrVars, uargs, iteration, ufail>>

\* time.sleep(args.sleep_seconds)
RunSleep ==
    /\ upc = "sleep"
    /\ upc' = "loop"
    /\ UNCHANGED <<notRetr, retrVars, uargs, iteration, ucycles, ufail>>

RunNext ==
    \/ \E args \in RunArgs : RunStart(args)
    \/ RunIterate
    \/ RunRetrieved
    \/ RunRetrieveFailed
    \/ RunEnrich
    \/ \E raises \in BOOLEAN : RunPublish(raises)
    \/ RunCheck
    \/ RunSleep
    \/ RetrSteps

(***************************************************************************)
(* publisher.py: publish_dataset.  A row of the table is [ts, power,       *)
(* emissions]: its timestamp and whether each primary metric is non-null;  *)
(* cols holds the primary metric columns the table has.  The bus client    *)
(* is what the code uses of it: connect returns or raises, publish         *)
(* returns a result code, loop_stop and disconnect end the connection.     *)
(***************************************************************************)
PubRows == [ts : {1, 2}, power : BOOLEAN, emissions : BOOLEAN]

PubTables ==
    {[cols |-> {"power", "emissions"}, rows |-> r] :
        r \in UNION {[1..n -> PubRows] : n \in 0..MaxRows}}
    \cup {[cols |-> c, rows |-> <<[ts |-> 1, power |-> "power" \in c, emissions |-> "emissions" \in c]>>] :
            c \in {{}, {"power"}, {"emissions"}}}

NoTable == [cols |-> {}, rows |-> <<>>]

\* MQTT_ERR_SUCCESS and MQTT_ERR_NO_CONN
ResultCodes == {0, 4}

\* the filter that looks at power only
EligiblePowerOnly(row) == row.power

\* df["power"].notna() & df["emissions"].notna()
Eligible(row) == row.power /\ row.emissions

\* required_cols missing from df.columns
MissingCols(df) == {"power", "emissions"} \ df.cols

\* combined_records, as the indices of the rows of df
CombinedRecords(df) ==
    IF df.rows = <<>> \/ MissingCols(df) # {} THEN {}
    ELSE {i \in 1..Len(df.rows) : Eligible(df.rows[i])}

\* iteration in the order of the table, without the sort
AnyNext(df, left) == left

\* combined_records.sort_values("timestamp").iterrows(): the rows that can
\* come next, the sort leaving the order of equal timestamps open
SortedNext(df, left) ==
    {i \in left : \A j \in left : df.rows[i].ts <= df.rows[j].ts}

\* a second publish of the row after a failure
RetryOnFailure(rc) == rc # 0

\* after result.rc != MQTT_ERR_SUCCESS the error is logged and the loop
\* goes on: the row is never published again
RetryRow(rc) == FALSE

\* the connection closed only when every publish succeeded
ClosesOnlyOnSuccess(sent) == \A k \in 1..Len(sent) : sent[k].rc = 0

\* client.loop_stop(); client.disconnect() follow the loop unconditionally
ClosesConnection(sent) == TRUE

\* a connect failure that is ignored
ConnectIgnored(ok) == "connected"

\* client.connect(host, port, keepalive) returns, or raises to the caller
ConnectOutcome(ok) == IF ok THEN "connected" ELSE "raise"

PubInit ==
    /\ ppc = "idle"
    /\ pdf = NoTable
    /\ pcombined = {}
    /\ pleft = {}
    /\ psent = <<>>
    /\ popen = FALSE
    /\ popened = 0
    /\ pclosed = 0
    /\ pconnok = "none"

\* publish_dataset(df, config): the early returns and the filter
PubCall(df) ==
    /\ ppc = "idle"
    /\ pdf' = df
    /\ pcombined' = CombinedRecords(df)
    /\ ppc' = IF CombinedRecords(df) = {} THEN "done" ELSE "connect"
    /\ UNCHANGED <<notPub, pleft, psent, popen, popened, pclosed, pconnok>>

\* mqtt.Client(); client.connect(...); client.loop_start()
PubConnect(ok) ==
    /\ ppc = "connect"
    /\ pconnok' = IF ok THEN "ok" ELSE "failed"
    /\ IF ConnectOutcome(ok) = "connected"
       THEN /\ popen' = TRUE
            /\ popened' = popened + 1
            /\ pleft' = pcombined
            /\ ppc' = "loop"
       ELSE /\ ppc' = "raised"
            /\ UNCHANGED <<popen, popened, pleft>>
    /\ UNCHANGED <<notPub, pdf, pcombined, psent, pclosed>>

\* one turn of the for loop: client.publish(topic, payload, qos=1), the
\* check of result.rc, the sleep
PubPublish(i, rc) ==
    /\ ppc = "loop"
    /\ i \in SortedNext(pdf, pleft)
    /\ psent' = Append(psent, [row |-> i, rc |-> rc, open |-> popen, conn |-> popened])
    /\ pleft' = IF RetryRow(rc) THEN pleft ELSE pleft \ {i}
    /\ UNCHANGED <<notPub, ppc, pdf, pcombined, popen, popened, pclosed, pconnok>>

\* the loop is over: client.loop_stop(); client.disconnect(); return
PubClose ==
    /\ ppc = "loop"
    /\ pleft = {}
    /\ IF ClosesConnection(psent)
       THEN popen' = FALSE /\ pclosed' = pclosed + 1
       ELSE UNCHANGED <<popen, pclosed>>
    /\ ppc' = "done"
    /\ UNCHANGED <<notPub, pdf, pcombined, pleft, psent, popened, pconnok>>

\* the call is over; the caller may call again
PubReset ==
    /\ ppc \in {"done", "raised"}
    /\ ppc' = "idle"
    /\ pdf' = NoTable
    /\ pcombined' = {}
    /\ pleft' = {}
    /\ psent' = <<>>
    /\ popen' = FALSE
    /\ popened' = 0
    /\ pclosed' = 0
    /\ pconnok' = "none"
    /\ UNCHANGED notPub

PubNext ==
    \/ \E df \in PubTables : PubCall(df)
    \/ \E ok \in BOOLEAN : PubConnect(ok)
    \/ \E i \in 1..MaxRows, rc \in ResultCodes : PubPublish(i, rc)
    \/ PubClose
    \/ PubReset

(***************************************************************************)
(* subscriber.py: _parse_message and MqttSubscriber.  A payload is one of  *)
(* the kinds below; the bus client is what the code uses of it: connect    *)
(* returns or raises, the network loop started by loop_start calls         *)
(* _on_connect with the acknowledgement of a connection and _on_message    *)
(* for a message of the subscribed topic, loop_stop ends both.             *)
(***************************************************************************)
PayloadKinds ==
    {"not_utf8",        \* bytes that are no UTF-8 text
     "bad_json",        \* text that is no JSON
     "json_null",       \* null
     "json_number",     \* 12
     "json_string",     \* "abc"
     "json_list",       \* [1, 2]
     "obj_no_ts",       \* an object without a timestamp field
     "obj_ts_ok",       \* an object whose timestamp is an ISO-8601 string
     "obj_ts_bad",      \* an object whose timestamp is a string that does not parse
     "obj_ts_number"}   \* an object whose timestamp is no string

NoRow == [kind |-> "none", ts |-> "none"]

\* the parse that keeps a message whose timestamp does not parse
ParseKeepsBadTimestamp(kind) ==
    CASE kind = "bad_json" -> [res |-> "none", row |-> NoRow]
      [] kind \in {"json_null", "json_number", "obj_ts_number"} -> [res |-> "raise", row |-> NoRow]
      [] kind = "obj_ts_ok" -> [res |-> "message", row |-> [kind |-> kind, ts |-> "datetime"]]
      [] kind = "obj_ts_bad" -> [res |-> "message", row |-> [kind |-> kind, ts |-> "text"]]
      [] OTHER -> [res |-> "message", row |-> [kind |-> kind, ts |-> "absent"]]

\* _parse_message(payload): None for invalid JSON and for a timestamp that
\* raises ValueError; `"timestamp" in message` raises TypeError for null
\* and a number, message["timestamp"].replace raises AttributeError for a
\* timestamp that is no string; a JSON string or list is returned as it is
_parse_message(kind) ==
    CASE kind = "bad_json" -> [res |-> "none", row |-> NoRow]
      [] kind \in {"json_null", "json_number", "obj_ts_number"} -> [res |-> "raise", row |-> NoRow]
      [] kind = "obj_ts_ok" -> [res |-> "message", row |-> [kind |-> kind, ts |-> "datetime"]]
      [] kind = "obj_ts_bad" -> [res |-> "none", row |-> NoRow]
      [] OTHER -> [res |-> "message", row |-> [kind |-> kind, ts |-> "absent"]]

\* msg.payload.decode("utf-8") raises UnicodeDecodeError
Decoded(kind) ==
    IF kind = "not_utf8" THEN [res |-> "raise", row |-> NoRow] ELSE _parse_message(kind)

\* the subscription issued for every acknowledgement
SubscribeAlways(rc) == TRUE

\* _on_connect: if rc == 0
SubscribeOnAck(rc) == rc = 0

\* a stop() that leaves the connection as it is
ConnKept(conn) == conn

\* stop(): client.disconnect()
ConnAfterStop(conn) == "none"

SubState ==
    CASE sconn = "pending" -> "Connecting"
      [] sconn = "acked" -> "Subscribed"
      [] OTHER -> "Disconnected"

NoCall == [kind |-> "none", outcome |-> "none", state |-> "none", before |-> 0, added |-> 0, handed |-> 0]

SubInit ==
    /\ shandler = "none"
    /\ sloop = FALSE
    /\ sconn = "none"
    /\ ssubscribed = FALSE
    /\ sstore = <<>>
    /\ shandled = 0
    /\ slast = NoCall
    /\ sop = [op |-> "none", from |-> "Disconnected"]
    /\ sstarts = 0
    /\ sattempts = 0
    /\ ssubs = 0
    /\ sacks = 0
    /\ serrors = 0
    /\ srefused = 0
    /\ sraised = 0
    /\ sstopLen = -1

\* MqttSubscriber(config, topic, on_message)
SubNew(handler) ==
    /\ shandler = "none"
    /\ shandler' = handler
    /\ sop' = [op |-> "new", from |-> SubState]
    /\ UNCHANGED <<notSub, sloop, sconn, ssubscribed, sstore, shandled, slast, sstarts,
                   sattempts, ssubs, sacks, serrors, srefused, sraised, sstopLen>>

\* start(): client.connect(...) returns or raises; client.loop_start()
SubStart(ok) ==
    /\ shandler # "none"
    /\ sstarts < MaxStarts
    /\ sstarts' = sstarts + 1
    /\ sattempts' = sattempts + 1
    /\ sop' = [op |-> IF ok THEN "start" ELSE "start_raised", from |-> SubState]
    /\ sconn' = IF ok THEN "pending" ELSE "none"
    /\ sloop' = IF ok THEN TRUE ELSE sloop
    /\ ssubscribed' = FALSE
    /\ sstopLen' = -1
    /\ sraised' = IF ok THEN sraised ELSE sraised + 1
    /\ UNCHANGED <<notSub, shandler, sstore, shandled, slast, ssubs, sacks, serrors, srefused>>

\* _on_connect(client, userdata, flags, rc), called by the network loop
SubAck(rc) ==
    /\ sloop
    /\ sconn = "pending"
    /\ sop' = [op |-> "ack", from |-> SubState]
    /\ sconn' = IF rc = 0 THEN "acked" ELSE "refused"
    /\ sacks' = IF rc = 0 THEN sacks + 1 ELSE sacks
    /\ IF SubscribeOnAck(rc)
       THEN ssubs' = ssubs + 1 /\ ssubscribed' = TRUE /\ UNCHANGED serrors
       ELSE serrors' = serrors + 1 /\ UNCHANGED <<ssubs, ssubscribed>>
    /\ srefused' = IF rc = 0 THEN srefused ELSE srefused + 1
    /\ UNCHANGED <<notSub, shandler, sloop, sstore, shandled, slast, sstarts, sattempts,
                   sraised, sstopLen>>

\* _on_message(client, userdata, msg), called by the network loop for a
\* message of the subscribed topic
SubMessage(kind) ==
    /\ sloop
    /\ sconn = "acked"
    /\ ssubscribed
    /\ Len(sstore) + shandled < MaxMsgs
    /\ sop' = [op |-> "msg", from |-> SubState]
    /\ LET r == Decoded(kind)
           toStore == r.res = "message" /\ shandler = "store"
           toCustom == r.res = "message" /\ shandler = "custom"
       IN  /\ sstore' = IF toStore THEN Append(sstore, r.row) ELSE sstore
           /\ shandled' = IF toCustom THEN shandled + 1 ELSE shandled
           /\ slast' = [kind |-> kind,
                        outcome |-> IF r.res = "raise" THEN "raised" ELSE "returned",
                        state |-> SubState,
                        before |-> Len(sstore),
                        added |-> IF toStore THEN 1 ELSE 0,
                        handed |-> IF r.res = "message" THEN 1 ELSE 0]
    /\ UNCHANGED <<notSub, shandler, sloop, sconn, ssubscribed, sstarts, sattempts, ssubs,
                   sacks, serrors, srefused, sraised, sstopLen>>

\* stop(): client.loop_stop(); client.disconnect()
SubStop ==
    /\ shandler # "none"
    /\ sop' = [op |-> "stop", from |-> SubState]
    /\ sloop' = FALSE
    /\ sconn' = ConnAfterStop(sconn)
    /\ ssubscribed' = FALSE
    /\ sstopLen' = Len(sstore)
    /\ UNCHANGED <<notSub, shandler, sstore, shandled, slast, sstarts, sattempts, ssubs,
                   sacks, serrors, srefused, sraised>>

\* CONNACK return codes: accepted, not authorised
AckCodes == {0, 5}

SubNext ==
    \/ \E handler \in {"store", "custom"} : SubNew(handler)
    \/ \E ok \in BOOLEAN : SubStart(ok)
    \/ \E rc \in AckCodes : SubAck(rc)
    \/ \E kind \in PayloadKinds : SubMessage(kind)
    \/ SubStop

(***************************************************************************)
(* subscriber.py: MessageStore.snapshot and what the caller does with the  *)
(* table it returns.  A message has scalar fields (cell) and the metadata  *)
(* sub-object the publisher puts in every payload: the frame keeps the     *)
(* dict that json.loads built, a cell of an object column being a          *)
(* reference.  DataFrame.copy() copies the cells, not the objects they     *)
(* refer to.                                                               *)
(***************************************************************************)
CellValues == {0, 1}

\* pd.DataFrame([message]): the row of a message, its metadata dict a new
\* object
RowOf(value, ref) == [cell |-> value, meta |-> ref]

\* self._data.copy(): the rows with their cells; a cell that refers to an
\* object refers to the same object in the copy
FrameCopy(rows) == rows

SnapInit ==
    /\ nstore = <<>>
    /\ nheap = <<>>
    /\ nsnap = <<>>
    /\ nhas = FALSE
    /\ nop = "none"

\* store.append(message)
SnapAppend(value) ==
    /\ Len(nstore) < MaxStoreRows
    /\ nstore' = Append(nstore, RowOf(value, Len(nheap) + 1))
    /\ nheap' = Append(nheap, 0)
    /\ nop' = "append"
    /\ UNCHANGED <<notSnap, nsnap, nhas>>

\* store.snapshot()
SnapTake ==
    /\ nsnap' = FrameCopy(nstore)
    /\ nhas' = TRUE
    /\ nop' = "snapshot"
    /\ UNCHANGED <<notSnap, nstore, nheap>>

\* the caller assigns a cell of the table it got
SnapSetCell(i, value) ==
    /\ nhas
    /\ i \in 1..Len(nsnap)
    /\ nsnap' = [nsnap EXCEPT ![i].cell = value]
    /\ nop' = "set_cell"
    /\ UNCHANGED <<notSnap, nstore, nheap, nhas>>

\* the caller changes, in place, the metadata object of a row of the table
\* it got
SnapSetInObject(i, value) ==
    /\ nhas
    /\ i \in 1..Len(nsnap)
    /\ nheap' = [nheap EXCEPT ![nsnap[i].meta] = value]
    /\ nop' = "set_in_object"
    /\ UNCHANGED <<notSnap, nstore, nsnap, nhas>>

\* the caller drops the table
SnapDrop ==
    /\ nhas
    /\ nsnap' = <<>>
    /\ nhas' = FALSE
    /\ nop' = "drop"
    /\ UNCHANGED <<notSnap, nstore, nheap>>

SnapNext ==
    \/ \E value \in CellValues : SnapAppend(value)
    \/ SnapTake
    \/ \E i \in 1..MaxStoreRows, value \in CellValues : SnapSetCell(i, value)
    \/ \E i \in 1..MaxStoreRows, value \in CellValues : SnapSetInObject(i, value)
    \/ SnapDrop

(***************************************************************************)
(* data_processing.py and caching.py as functions: one call at a time on   *)
(* one input, the input and the outcome kept in dop                        *)
(***************************************************************************)
SeqsUpTo(S, n) == UNION {[1..k -> S] : k \in 0..n}

\* raw records: with and without metric name, timestamp field and value
\* field, with a timestamp text that does not parse and with a value that
\* is no number
RawRecords == [fid : {1}, metric : {"", "power"}, ts : {-2, -1, 1, 2}, value : {-2, -1, 5}]

\* rows of a normalised frame
NormRows == [fid : {1, 2}, metric : {"power", "emissions"}, ts : {1, 2},
             value : {NaN, Num(4), Num(8)}]

\* metadata tables: empty, one row, a facility listed twice, a facility
\* without coordinates
MetaTables ==
    {<<>>,
     <<[fid |-> 1, lat |-> Num(1)]>>,
     <<[fid |-> 1, lat |-> Num(1)], [fid |-> 1, lat |-> Num(2)]>>,
     <<[fid |-> 1, lat |-> NaN], [fid |-> 2, lat |-> Num(2)]>>}

ProcIdle ==
    [op |-> "idle", records |-> <<>>, rows |-> <<>>, metadata |-> <<>>, raised |-> FALSE,
     table |-> EmptyTable, out |-> EmptyTable]

ProcInit == dop = ProcIdle

\* normalise_timeseries_records(records): dop.rows is the frame returned
ProcNormalise(records) ==
    /\ dop.op = "idle"
    /\ dop' = [ProcIdle EXCEPT !.op = "normalise", !.records = records,
                               !.raised = NormaliseRaises(records),
                               !.rows = IF NormaliseRaises(records) THEN <<>>
                                        ELSE normalise_timeseries_records(records)]
    /\ UNCHANGED notProc

\* pivot_metrics(df) on the frame dop.rows
ProcPivot(rows) ==
    /\ dop.op = "idle"
    /\ dop' = [ProcIdle EXCEPT !.op = "pivot", !.rows = rows, !.out = pivot_metrics(rows)]
    /\ UNCHANGED notProc

\* the end of the facility branch of retrieve_and_cache_dataset on a frame
\* of facility rows: pivot_metrics, merge_with_metadata with the metadata
\* table as load_facility_metadata read it, filter_by_optional_metrics;
\* dop.out is `cleaned`
ProcMerge(rows, metadata) ==
    /\ dop.op = "idle"
    /\ LET merged == merge_with_metadata(pivot_metrics(rows), metadata)
       IN  dop' = [ProcIdle EXCEPT !.op = "merge", !.rows = rows, !.metadata = metadata,
                                  !.table = pivot_metrics(rows),
                                  !.raised = FilterRaises(merged),
                                  !.out = IF FilterRaises(merged) THEN EmptyTable
                                          ELSE filter_by_optional_metrics(merged)]
    /\ UNCHANGED notProc

\* write_dataset_to_cache(t, p) then read_cached_dataset(p), t the
\* consolidated table `cleaned` of the facility branch
ProcCache(rows, metadata) ==
    /\ dop.op = "idle"
    /\ LET merged == merge_with_metadata(pivot_metrics(rows), metadata)
           t == filter_by_optional_metrics(merged)
       IN  /\ ~FilterRaises(merged)
           /\ dop' = [ProcIdle EXCEPT !.op = "cache", !.rows = rows, !.metadata = metadata,
                                      !.table = t, !.out = read_cached_dataset(ToCsv(t))]
    /\ UNCHANGED notProc

\* normalised rows of facility records and of network records
MixedRows == [fid : {0, 1}, metric : {"power", "price"}, ts : {1, 2}, value : {Num(4)}]

\* the facility branch of retrieve_and_cache_dataset from the normalised
\* frame on: the consolidation, the metadata merge and the optional-metric
\* filter; dop.table is `consolidated`, dop.out is `cleaned`
ProcConsolidate(rows, meta) ==
    /\ dop.op = "idle"
    /\ LET consolidated == Consolidate(rows)
           merged == Merged(consolidated, meta)
           raises == MergeRaises(consolidated, meta) \/ FilterRaises(merged)
       IN  dop' = [ProcIdle EXCEPT !.op = "filter", !.rows = rows, !.metadata = meta.rows,
                                  !.table = consolidated,
                                  !.raised = raises,
                                  !.out = IF raises THEN EmptyTable
                                          ELSE filter_by_optional_metrics(merged)]
    /\ UNCHANGED notProc

\* the call is over
ProcReset ==
    /\ dop.op # "idle"
    /\ dop' = ProcIdle
    /\ UNCHANGED notProc

ProcNext ==
    \/ /\ dop.op = "idle"
       /\ \E records \in SeqsUpTo(RawRecords, MaxRecords) : ProcNormalise(records)
    \/ /\ dop.op = "idle"
       /\ \E rows \in SeqsUpTo(NormRows, MaxRecords) : ProcPivot(rows)
    \/ /\ dop.op = "idle"
       /\ \E rows \in SeqsUpTo(NormRows, MaxJoinRows), metadata \in MetaTables :
              ProcMerge(rows, metadata)
    \/ /\ dop.op = "idle"
       /\ \E rows \in SeqsUpTo(NormRows, MaxJoinRows), metadata \in MetaTables :
              ProcCache(rows, metadata)
    \/ /\ dop.op = "idle"
       /\ \E rows \in SeqsUpTo(MixedRows, MaxRecords) \ {<<>>}, meta \in MetaChoices :
              ProcConsolidate(rows, meta)
    \/ ProcReset

Init ==
    /\ StoreInit /\ WinInit /\ ClientInit /\ RetrInit /\ RunInit /\ PubInit /\ SubInit
    /\ SnapInit /\ ProcInit

SpecStore == Init /\ [][StoreNext]_vars

\* the steps of a thread inside a call, the wait for the lock apart
InCall(t) ==
    \/ AppendRow(t) \/ AppendConcat(t) \/ AppendAssign(t) \/ AppendReturn(t) \/ AppendFail(t)
    \/ SnapshotCopy(t) \/ SnapshotReturn(t) \/ SnapshotDone(t)

\* the store used by the threads 1..MaxFairThreads for MaxFairOps calls
FairThreads == 1..MaxFairThreads

FairNext ==
    \/ \E t \in FairThreads, m \in Msgs : started < MaxFairOps /\ CallAppend(t, m)
    \/ \E t \in FairThreads : started < MaxFairOps /\ CallSnapshot(t)
    \/ \E t \in FairThreads : Acquire(t)
    \/ \E t \in FairThreads : AppendRow(t)
    \/ \E t \in FairThreads : AppendConcat(t)
    \/ \E t \in FairThreads : AppendAssign(t)
    \/ \E t \in FairThreads : AppendReturn(t)
    \/ \E t \in FairThreads : AppendFail(t)
    \/ \E t \in FairThreads : SnapshotCopy(t)
    \/ \E t \in FairThreads : SnapshotReturn(t)
    \/ \E t \in FairThreads : SnapshotDone(t)

\* fair scheduling: a thread that can take a step of its call takes one, and
\* a thread that finds the lock free again and again gets it
SpecStoreFair ==
    /\ Init
    /\ [][FairNext]_vars
    /\ \A t \in FairThreads : WF_vars(InCall(t)) /\ SF_vars(Acquire(t))
SpecWin == Init /\ [][WinNext]_vars
SpecClient == Init /\ [][ClientNext]_vars

\* fetch_facility_metrics against a server that answers every request and is
\* free to send a cursor with every page.  Every _request returns or raises
\* (timeout=30) and the generator is consumed to its end: a step that can be
\* taken is taken
PageNext ==
    \/ \E metrics \in MetricLists, span \in FetchSpans, interval \in ClientIntervals :
          CallSingle(metrics, 0, span, interval)
    \/ PageIssue
    \/ \E status \in Statuses, npoints \in PointCounts, hasNext \in BOOLEAN :
          SingleHandle(status, npoints, hasNext)
    \/ ClientReset

SpecPage == Init /\ [][PageNext]_vars /\ WF_vars(PageNext)
SpecRetr == Init /\ [][RetrNext]_vars
SpecRun == Init /\ [][RunNext]_vars
SpecPub == Init /\ [][PubNext]_vars
SpecSub == Init /\ [][SubNext]_vars
SpecSnap == Init /\ [][SnapNext]_vars
SpecProc == Init /\ [][ProcNext]_vars

(***************************************************************************)
(* C1: for any interleaving of appends from concurrent threads with        *)
(* snapshots, once every append that was called has returned the store     *)
(* holds exactly one row per append (none lost), and every snapshot holds  *)
(* exactly the whole rows of the appends that had returned when it copied. *)
(***************************************************************************)
AppendsInProgress == {t \in Threads : tpc[t] \in {"app_lock", "app_row", "app_concat", "app_assign", "app_unlock"}}

C1_StoreConsistent ==
    /\ AppendsInProgress = {} =>
          /\ (IF data.none THEN <<>> ELSE data.rows) = completed
          /\ data.none = (completed = <<>>)
    /\ \A t \in Threads : tpc[t] \in {"snap_unlock", "snap_ret"} => tsnap[t] = tseen[t]

\* three appends issued concurrently have all returned and a snapshot shows them
C1_Witness ==
    /\ AppendsInProgress = {}
    /\ Len(completed) = 3
    /\ \E t \in Threads : tpc[t] = "snap_ret" /\ Len(tsnap[t]) = 3

(***************************************************************************)
(* C4: for start < end the sub-windows of a series fetch partition         *)
(* [start, end): the first starts at start, the last ends at end, each     *)
(* window ends where the next starts, none is empty, each spans at most    *)
(* the interval's maximum range M, and there are ceil((end - start) / M).  *)
(***************************************************************************)
CeilDiv(a, b) == (a + b - 1) \div b

C4_WindowsPartition ==
    (wpc = "done" /\ wstart < wend) =>
        /\ Len(wwins) >= 1
        /\ wwins[1][1] = wstart
        /\ wwins[Len(wwins)][2] = wend
        /\ \A i \in 1..Len(wwins) :
              /\ wwins[i][1] < wwins[i][2]
              /\ wwins[i][2] - wwins[i][1] <= MaxRange(wint)
        /\ \A i \in 1..(Len(wwins) - 1) : wwins[i][2] = wwins[i + 1][1]
        /\ Len(wwins) = CeilDiv(wend - wstart, MaxRange(wint))

\* a 20-day range at the 7-day limit gives [d0,d7), [d7,d14), [d14,d20)
C4_Witness ==
    /\ wpc = "done"
    /\ wop = "network"
    /\ wint = "5m"
    /\ wend - wstart = 20
    /\ wwins = <<<<wstart, wstart + 7>>, <<wstart + 7, wstart + 14>>, <<wstart + 14, wstart + 20>>>>

(***************************************************************************)
(* C5: a 404 answer to one sub-request of a series fetch yields no record  *)
(* for that sub-request and raises nothing, and the fetch still issues     *)
(* every remaining sub-request: a fetch that saw a 404 and ended has       *)
(* issued the requests of all its metrics, batches and sub-windows.        *)
(***************************************************************************)
Handled == cphase \in {"ready", "done", "raised"} /\ cstatus # 0

ClientWindows == DateWindows(cstart, cend, MaxRange(cint))

AllRequested ==
    CASE cop = "bulk" -> nreq = Len(cplan)
      [] cop = "network" -> nreq = Len(ClientWindows)
      [] cop = "single" -> nchains = Len(ClientWindows) * Len(cmetrics)
      [] OTHER -> TRUE

C5_Benign404 ==
    cop \in SeriesOps =>
        /\ (Handled /\ cstatus = 404) =>
              /\ cout = "skip"
              /\ cyield = 0
              /\ cphase # "raised"
              /\ craised = 0
        /\ (cphase = "done" /\ had404) => AllRequested

\* a bulk fetch got a 404 for one batch and went on to the end, the last
\* batch giving its records
C5_Witness ==
    /\ cop = "bulk"
    /\ cphase = "done"
    /\ had404
    /\ Len(cplan) >= 2
    /\ nreq = Len(cplan)
    /\ cstatus = 200
    /\ cyield = 1

(***************************************************************************)
(* C6 as claimed: in every series fetch an HTTP error response with a      *)
(* status other than 404 is raised to the caller, never swallowed.         *)
(***************************************************************************)
C6_AllErrorsPropagate ==
    (cop \in SeriesOps /\ Handled /\ cstatus \notin {200, 404}) =>
        /\ cout = "raise"
        /\ cphase = "raised"
        /\ craised = cstatus

(***************************************************************************)
(* C6 as amended: fetch_network_data raises every HTTP error status other  *)
(* than 404; fetch_facilities_metrics raises every HTTP error status other *)
(* than 404, 416 and 500, for which it skips the batch and goes on;        *)
(* fetch_facility_metrics raises none, it goes on with the next metric.    *)
(* A raised error ends the fetch with that status.                         *)
(***************************************************************************)
C6_Propagation ==
    (cop \in SeriesOps /\ Handled /\ cstatus # 200) =>
        /\ cop = "network" => (cout = "raise") = (cstatus # 404)
        /\ cop = "bulk" => (cout = "raise") = (cstatus \notin {404, 416, 500})
        /\ cop = "single" => cout # "raise"
        /\ cout = "raise" => (cphase = "raised" /\ craised = cstatus)
        /\ cout # "raise" => (cphase # "raised" /\ craised = 0 /\ cyield = 0)

\* a 500 answer to a bulk batch was skipped and the next batch requested,
\* where the network fetch would have raised it
C6_Witness ==
    /\ cop = "bulk"
    /\ cphase = "ready"
    /\ cstatus = 500
    /\ cout = "skip"
    /\ cidx = 2

(***************************************************************************)
(* C7: within one invocation of a client operation no request is issued a  *)
(* second time, whether it succeeded or failed (a page of a cursor chain   *)
(* is identified by its position in the chain).                            *)
(***************************************************************************)
C7_NoRetry ==
    /\ ~dupIssued
    /\ nreq = Cardinality(reqSeen)

\* a batch request failed with a 500 and the request in flight is the next one
C7_Witness ==
    /\ cop = "bulk"
    /\ cphase = "wait"
    /\ cstatus = 500
    /\ nreq = 2
    /\ Cardinality(reqSeen) = 2

(***************************************************************************)
(* C2: a call of retrieve_and_cache_dataset with caching enabled that      *)
(* finds a cache entry for its (start, end) window returns at once the     *)
(* table read from that entry; the call issues no remote request (neither  *)
(* catalog nor series) and writes nothing to the cache.                    *)
(***************************************************************************)
RequestedPath(args) == build_cache_path(args.start, args.end)

C2_CacheHitShortCircuit ==
    /\ [][(ncalls' = ncalls + 1 /\ rargs'.use_cache /\ cache[RequestedPath(rargs')] # Absent)
             => /\ rhit'
                /\ rpc' = "returned"
                /\ rresult' = read_cached_dataset(cache[RequestedPath(rargs')])
                /\ rreqs' = 0
                /\ rwrites' = 0
                /\ cache' = cache]_vars
    /\ [](rhit => (rpc = "returned" /\ rreqs = 0 /\ rwrites = 0))

\* the second call found the entry the first call wrote after its fetches
C2_Witness ==
    /\ rhit
    /\ ncalls = 2
    /\ prevFetched
    /\ rargs.use_cache
    /\ ~IsEmpty(rresult)
    /\ "latitude" \in ColSet(rresult)

(***************************************************************************)
(* C3 as claimed: of two consecutive calls with the same (start, end,      *)
(* metrics) and caching enabled at most one performs remote fetches, and   *)
(* the second returns what the first returned.                             *)
(***************************************************************************)
C3_Idempotent ==
    rrepeat =>
        /\ ~(prevFetched /\ rreqs > 0)
        /\ rpc \in {"returned", "raised"} => (rpc = "returned" /\ rresult = prevResult)

(***************************************************************************)
(* C3 as amended: when the first of two consecutive calls with the same    *)
(* (start, end, metrics) and caching enabled returned a table (read from   *)
(* the cache, or fetched and written to it), the second call performs no   *)
(* remote fetch and no write and returns the cache entry read back: the    *)
(* entry is the first call's table as written, or the entry the first call *)
(* read itself.  A first call that raised or returned the empty result     *)
(* leaves no entry and the second call fetches again.                      *)
(***************************************************************************)
C3_IdempotentAfterTable ==
    (rrepeat /\ prevOutcome = "table") =>
        /\ rhit
        /\ rpc = "returned"
        /\ rreqs = 0
        /\ rwrites = 0
        /\ rresult = read_cached_dataset(cache[RequestedPath(rargs)])
        /\ prevFetched => cache[RequestedPath(rargs)] = ToCsv(prevResult)
        /\ rresult = prevResult

\* the first call fetched two rows and wrote them, the repeated call
\* returned them from the cache
C3_Witness ==
    /\ rrepeat
    /\ prevOutcome = "table"
    /\ prevFetched
    /\ rpc = "returned"
    /\ Len(rresult.rows) = 2

(***************************************************************************)
(* C8: fetch_facilities returns an empty list and raises nothing when the  *)
(* catalog endpoint answers 404, and raises for every other non-2xx status.*)
(***************************************************************************)
C8_CatalogPolicy ==
    (cop = "catalog" /\ Handled) =>
        /\ cstatus = 404 => (cphase = "done" /\ cret = <<>> /\ craised = 0)
        /\ cstatus \notin {200, 404} => (cphase = "raised" /\ craised = cstatus)

(***************************************************************************)
(* C9: a retrieval failure of an iteration (a remote error or the          *)
(* empty-result error raised by the orchestrator) ends that iteration      *)
(* only: the step that follows it in run_pipeline stays in the loop, it    *)
(* never ends the run as failed.                                           *)
(***************************************************************************)
C9_FailureIsolated ==
    [][(upc = "retrieving" /\ rpc = "raised") => (upc' # "failed" /\ ufail' = "none")]_vars

(***************************************************************************)
(* C10: with an iteration count n > 0 a run ends only as done, after       *)
(* exactly n cycles, unless a retrieval or a publication failed; with the  *)
(* count 0 a run never ends as done and keeps starting cycles.             *)
(***************************************************************************)
C10_Termination ==
    /\ upc = "failed" => ufail \in {"retrieve", "publish"}
    /\ upc = "done" =>
          /\ uargs.iterations > 0
          /\ iteration = uargs.iterations
          /\ ucycles = uargs.iterations
    /\ uargs.iterations > 0 => ucycles <= uargs.iterations
    /\ (uargs.iterations = 0 /\ upc # "idle") => upc # "done"

(***************************************************************************)
(* C11: within one publish_dataset call the messages are handed to the bus *)
(* in ascending timestamp order: of two messages of the call the earlier   *)
(* one has a timestamp less than or equal to the later one's, whatever the *)
(* order of the rows in the table.                                         *)
(***************************************************************************)
SentTs(k) == pdf.rows[psent[k].row].ts

C11_PublicationOrder ==
    \A k1 \in 1..Len(psent), k2 \in 1..Len(psent) : k1 < k2 => SentTs(k1) <= SentTs(k2)

\* a table whose rows come in descending timestamp order was published whole
C11_Witness ==
    /\ ppc = "done"
    /\ Len(psent) = 3
    /\ pdf.rows[1].ts = 2
    /\ pdf.rows[3].ts = 1
    /\ psent[1].row = 3

(***************************************************************************)
(* C12: a publish_dataset call that returns has emitted exactly one        *)
(* message for every row whose power and emissions are both non-null and   *)
(* none for the other rows; the rows left out cause no error.              *)
(***************************************************************************)
RowsWithBoth ==
    {i \in 1..Len(pdf.rows) :
        /\ {"power", "emissions"} \subseteq pdf.cols
        /\ pdf.rows[i].power
        /\ pdf.rows[i].emissions}

SentRows == {psent[k].row : k \in 1..Len(psent)}

C12_PublicationFilter ==
    /\ SentRows \subseteq RowsWithBoth
    /\ Cardinality(SentRows) = Len(psent)
    /\ ppc = "done" => SentRows = RowsWithBoth
    /\ (ppc # "idle" /\ RowsWithBoth = {}) => (ppc = "done" /\ psent = <<>>)
    /\ ppc = "raised" => (pconnok = "failed" /\ RowsWithBoth # {})

\* of three rows the one without emissions and the one without power were
\* left out and the third was published
C12_Witness ==
    /\ ppc = "done"
    /\ Len(pdf.rows) = 3
    /\ ~pdf.rows[1].emissions
    /\ ~pdf.rows[2].power
    /\ SentRows = {3}

(***************************************************************************)
(* C13: when the bus reports a failure for a message the publisher does    *)
(* not publish that row a second time and goes on with every remaining     *)
(* eligible row; the call still returns and closes the connection.         *)
(***************************************************************************)
FailedRows == {psent[k].row : k \in {n \in 1..Len(psent) : psent[n].rc # 0}}

C13_DeliveryFailurePolicy ==
    /\ \A k1 \in 1..Len(psent), k2 \in 1..Len(psent) :
          (psent[k1].row = psent[k2].row /\ psent[k1].rc # 0) => k1 = k2
    /\ FailedRows # {} => ppc \in {"loop", "done"}
    /\ (FailedRows # {} /\ ppc = "loop") => pleft = pcombined \ SentRows
    /\ (FailedRows # {} /\ ppc = "done") =>
          /\ SentRows = pcombined
          /\ ~popen
          /\ pclosed = 1

\* the first of three messages failed, the other two were published after
\* it and the call returned
C13_Witness ==
    /\ ppc = "done"
    /\ Len(psent) = 3
    /\ psent[1].rc # 0
    /\ psent[2].rc = 0
    /\ ~popen

SubscriberSafety ==
    /\ ssubs = sacks
    /\ ssubscribed => sconn = "acked"
    /\ slast.outcome # "none" => slast.state = "Subscribed"
    /\ sstopLen >= 0 => (SubState = "Disconnected" /\ Len(sstore) = sstopLen)

AttemptFailed == sop.op = "start_raised" \/ sconn = "refused"

C18_CallbackNeverRaises ==
    /\ slast.outcome # "raised"
    /\ slast.kind \notin {"none", "obj_no_ts", "obj_ts_ok"} =>
          (slast.added = 0 /\ slast.handed = 0)

(***************************************************************************)
(* C19: a message whose timestamp field is present and does not parse is   *)
(* not appended to the store, which stays as it was; a message whose       *)
(* timestamp parses is handed on exactly once, by the default handler as   *)
(* one new row of the store with the timestamp as a datetime.              *)
(***************************************************************************)
C19_BadTimestampDiscarded ==
    /\ Len(sstore) = slast.before + slast.added
    /\ slast.kind \in {"obj_ts_bad", "obj_ts_number"} => (slast.added = 0 /\ slast.handed = 0)
    /\ slast.kind = "obj_ts_ok" =>
          /\ slast.outcome = "returned"
          /\ slast.handed = 1
          /\ shandler = "store" =>
                /\ slast.added = 1
                /\ sstore[Len(sstore)] = [kind |-> "obj_ts_ok", ts |-> "datetime"]
          /\ shandler = "custom" => slast.added = 0
    /\ \A k \in 1..Len(sstore) : sstore[k].ts \in {"absent", "datetime"}

\* the store held one row and the message with a good timestamp became its
\* second
C19_Witness ==
    /\ shandler = "store"
    /\ slast.kind = "obj_ts_ok"
    /\ slast.before = 1
    /\ Len(sstore) = 2
    /\ sstore[1].ts = "absent"

(***************************************************************************)
(* C20: snapshot() leaves the buffer as it is and returns its content at   *)
(* that moment; a later append does not change the table an earlier        *)
(* snapshot returned, and what the caller does to that table does not      *)
(* change the store.  The content of a table is what its cells hold and    *)
(* what the objects they refer to hold.                                    *)
(***************************************************************************)
Content(rows) ==
    [i \in 1..Len(rows) |-> [cell |-> rows[i].cell, meta |-> nheap[rows[i].meta]]]

ContentAfter(rows) ==
    [i \in 1..Len(rows) |-> [cell |-> rows[i].cell, meta |-> nheap'[rows[i].meta]]]

C20_SnapshotIsCopy ==
    [][/\ nop' = "snapshot" =>
             (ContentAfter(nstore') = Content(nstore) /\ ContentAfter(nsnap') = Content(nstore))
       /\ nop' = "append" => ContentAfter(nsnap') = Content(nsnap)
       /\ nop' \in {"set_cell", "set_in_object", "drop"} =>
             ContentAfter(nstore') = Content(nstore)]_vars

(***************************************************************************)
(* C21: the buffer of the MessageStore only grows: every step that changes *)
(* it is the assignment of one append and leaves the rows stored before    *)
(* as they were, in their order, with the appended message as one new row  *)
(* at the end, whether or not an equal message is stored already.          *)
(***************************************************************************)
C21_AppendOnly ==
    [][/\ data' # data => \E t \in Threads : tpc[t] = "app_assign" /\ tpc'[t] = "app_unlock"
       /\ \A t \in Threads :
              tpc[t] = "app_assign" /\ tpc'[t] = "app_unlock" =>
                  /\ data'.rows = Append(data.rows, tmsg[t])
                  /\ ~data'.none]_vars

\* the same message was appended twice and is stored twice
C21_Witness ==
    /\ AppendsInProgress = {}
    /\ Len(data.rows) = 3
    /\ data.rows[1] = data.rows[2]

(***************************************************************************)
(* C22: a call of the normaliser that returns gives one output row per     *)
(* input record except the records that miss both the timestamp field and  *)
(* the value field: the output has exactly that many rows fewer than the   *)
(* input has records.                                                      *)
(***************************************************************************)
CountOf(records, Test(_)) == Cardinality({i \in 1..Len(records) : Test(records[i])})

MissesBoth(record) == ~HasTimestamp(record) /\ ~HasValue(record)

C22_DropCount ==
    (dop.op = "normalise" /\ ~dop.raised) =>
        Len(dop.rows) = Len(dop.records) - CountOf(dop.records, MissesBoth)

(***************************************************************************)
(* C22 as amended: the normaliser raises exactly when a record has a       *)
(* timestamp that does not parse; otherwise it drops the records that miss *)
(* the timestamp field or the value field (either one) or the metric name, *)
(* and the output has exactly that many rows fewer than the input has      *)
(* records: every other record gives one row, in the order of the input.   *)
(***************************************************************************)
IsDropped(record) == ~HasTimestamp(record) \/ ~HasValue(record) \/ record.metric = ""

IsKept(record) == ~IsDropped(record)

C22_DropCountEither ==
    dop.op = "normalise" =>
        /\ dop.raised = (\E i \in 1..Len(dop.records) : dop.records[i].ts = -2)
        /\ ~dop.raised =>
              /\ Len(dop.rows) = Len(dop.records) - CountOf(dop.records, IsDropped)
              /\ LET kept == SelectSeq(dop.records, IsKept)
                 IN  \A i \in 1..Len(dop.rows) :
                         /\ dop.rows[i].ts = kept[i].ts
                         /\ dop.rows[i].metric = kept[i].metric

\* of three records one misses only its value, one misses both fields and
\* one is whole: one row is returned
C22_Witness ==
    /\ dop.op = "normalise"
    /\ ~dop.raised
    /\ Len(dop.records) = 3
    /\ Len(dop.rows) = 1
    /\ \E i \in 1..3 : HasTimestamp(dop.records[i]) /\ ~HasValue(dop.records[i])
    /\ \E i \in 1..3 : MissesBoth(dop.records[i])

(***************************************************************************)
(* C23: a record that has a timestamp and a value field whose content is   *)
(* no number gives one output row with the value NaN: the output of a call *)
(* that returns has as many NaN rows as the input has such records, and    *)
(* such a record raises nothing.                                           *)
(***************************************************************************)
FailsCoercion(record) == record.ts >= 0 /\ record.value = -2

IsNaNRow(row) == row.value = NaN

C23_CoercionKeepsRecord ==
    dop.op = "normalise" =>
        /\ (\A i \in 1..Len(dop.records) : FailsCoercion(dop.records[i])) => ~dop.raised
        /\ ~dop.raised => CountOf(dop.rows, IsNaNRow) = CountOf(dop.records, FailsCoercion)

(***************************************************************************)
(* C23 as amended: a record that has a timestamp that parses, a metric     *)
(* name and a value field whose content is no number gives one output row  *)
(* with the value NaN and raises nothing; the same record without a metric *)
(* name is dropped with the other rows that have no metric.                *)
(***************************************************************************)
FailsCoercionNamed(record) == FailsCoercion(record) /\ record.metric # ""

C23_CoercionKeepsNamedRecord ==
    dop.op = "normalise" =>
        /\ (\A i \in 1..Len(dop.records) : FailsCoercion(dop.records[i])) => ~dop.raised
        /\ ~dop.raised =>
              /\ CountOf(dop.rows, IsNaNRow) = CountOf(dop.records, FailsCoercionNamed)
              /\ \A i \in 1..Len(dop.rows) : dop.rows[i].metric # ""

\* a record whose value is no number is returned as a NaN row next to a
\* row with a number
C23_Witness ==
    /\ dop.op = "normalise"
    /\ ~dop.raised
    /\ Len(dop.records) = 2
    /\ FailsCoercionNamed(dop.records[1])
    /\ Len(dop.rows) = 2
    /\ dop.rows[1].value = NaN
    /\ dop.rows[2].value = Num(5)

(***************************************************************************)
(* C24: pivot_metrics of a normalised table returns exactly one row per    *)
(* distinct (facility_id, timestamp) key of the table and one column per   *)
(* distinct metric name; a key with records for power and for emissions    *)
(* has both columns populated in its one row, and the cell of a            *)
(* (key, metric) is the mean of the values of its records.                 *)
(***************************************************************************)
KeysOf(rows) == {<<rows[i].fid, rows[i].ts>> : i \in 1..Len(rows)}

MetricsOf(rows) == {rows[i].metric : i \in 1..Len(rows)}

RowKey(row) == <<row["facility_id"].v, row["timestamp"].v>>

HasRecord(rows, key, metric) ==
    \E i \in 1..Len(rows) : <<rows[i].fid, rows[i].ts>> = key /\ rows[i].metric = metric

C24_Pivot ==
    (dop.op = "pivot" /\ dop.rows # <<>>) =>
        /\ Len(dop.out.rows) = Cardinality(KeysOf(dop.rows))
        /\ {RowKey(dop.out.rows[i]) : i \in 1..Len(dop.out.rows)} = KeysOf(dop.rows)
        /\ ColSet(dop.out) = {"facility_id", "timestamp"} \cup MetricsOf(dop.rows)
        /\ \A i \in 1..Len(dop.out.rows) : \A m \in MetricsOf(dop.rows) :
               /\ dop.out.rows[i][m] = MeanCell(dop.rows, RowKey(dop.out.rows[i]), m)
               /\ HasRecord(dop.rows, RowKey(dop.out.rows[i]), m) => dop.out.rows[i][m] # NaN

(***************************************************************************)
(* C25: the consolidated table of the facility branch, after the pivot,    *)
(* the left join with the metadata table and the column filter, has at     *)
(* most one row per (facility_id, timestamp) pair.                         *)
(***************************************************************************)
UniqueRows(df) ==
    \A i, j \in 1..Len(df.rows) : RowKey(df.rows[i]) = RowKey(df.rows[j]) => i = j

C25_ConsolidatedRowUnique ==
    (dop.op = "merge" /\ ~dop.raised) => UniqueRows(dop.out)

C27_EntryNeverChanges ==
    [][\A path \in CachePaths : cache[path] # Absent => cache'[path] = cache[path]]_vars

(***************************************************************************)
(* C27 as amended: no step of an orchestrator call removes a cache entry,  *)
(* and the only step that changes one is the write at the end of a         *)
(* retrieval that did not return from the cache: it creates or replaces    *)
(* the entry of the call's own window with the table the call returns.  A  *)
(* call that consults the cache and finds the entry of its window leaves   *)
(* every entry as it is; a call with use_cache off that succeeds replaces  *)
(* the entry of its window.                                                *)
(***************************************************************************)
C27_EntryLifecycle ==
    [][\A path \in CachePaths :
          /\ cache[path] # Absent => cache'[path] # Absent
          /\ cache'[path] # cache[path] =>
                /\ rpc = "write"
                /\ ~rhit
                /\ path = RequestedPath(rargs)
                /\ cache'[path] = ToCsv(rclean)
                /\ rresult' = rclean
                /\ cache[path] # Absent => ~rargs.use_cache]_vars

\* the second call, with use_cache off, has replaced the entry the first
\* call wrote for the same window
C27_Witness ==
    /\ ncalls = 2
    /\ prevOutcome = "table"
    /\ rpc = "returned"
    /\ ~rargs.use_cache
    /\ rwrites = 1
    /\ \A path \in CachePaths : path # RequestedPath(rargs) => cache[path] = Absent

(***************************************************************************)
(* C28: when the normaliser returns zero rows, on the facility path and on *)
(* the network path alike, the orchestrator raises if allow_partial is off *)
(* and returns an empty table, raising nothing and writing nothing, if     *)
(* allow_partial is on.                                                    *)
(***************************************************************************)
C28_EmptyResultPolicy ==
    [][(/\ rpc = "process"
        /\ ~NormaliseRaises(rrecords)
        /\ normalise_timeseries_records(rrecords) = <<>>)
          => IF rargs.allow_partial
             THEN rpc' = "returned" /\ IsEmpty(rresult') /\ cache' = cache
             ELSE rpc' = "raised" /\ cache' = cache]_vars

\* a facility-level call with allow_partial fetched, got no record and
\* returned the empty table
C28_Witness ==
    /\ rpc = "returned"
    /\ rargs.facility
    /\ rargs.allow_partial
    /\ ~rhit
    /\ rreqs = 2
    /\ rrecords = <<>>
    /\ IsEmpty(rresult)

(***************************************************************************)
(* C29: the table a facility-level call returns after fetching power (or   *)
(* emissions) together with price (or demand) has facility rows only: each *)
(* row is the row of a (facility, timestamp) for which a facility record   *)
(* was fetched, and it carries, in the column of the network metric, the   *)
(* value the network endpoint returned for its timestamp.                  *)
(***************************************************************************)
MixedRequest(args) ==
    /\ args.facility
    /\ FacilityMetrics(args.metrics) # <<>>
    /\ NetworkLevelMetrics(args.metrics) # <<>>

FacilityKeys(records) ==
    {<<records[i].fid, records[i].ts>> : i \in {j \in 1..Len(records) : records[j].fid # 0}}

C29_Broadcast ==
    (rpc = "returned" /\ ~rhit /\ rwrites = 1 /\ MixedRequest(rargs)) =>
        /\ "facility_id" \in ColSet(rresult)
        /\ \A i \in 1..Len(rresult.rows) :
               /\ rresult.rows[i]["facility_id"].k = "str"
               /\ RowKey(rresult.rows[i]) \in FacilityKeys(rrecords)
               /\ \A j \in 1..Len(rrecords) :
                      (rrecords[j].fid = 0 /\ rrecords[j].ts = rresult.rows[i]["timestamp"].v) =>
                          /\ rrecords[j].metric \in ColSet(rresult)
                          /\ rresult.rows[i][rrecords[j].metric] = Num(rrecords[j].value)

\* two facilities at the timestamp of the network price: both rows carry it
C29_Witness ==
    /\ rpc = "returned"
    /\ ~rhit
    /\ rwrites = 1
    /\ MixedRequest(rargs)
    /\ Len(rresult.rows) = 2
    /\ rresult.rows[1]["facility_id"] # rresult.rows[2]["facility_id"]
    /\ "price" \in ColSet(rresult)
    /\ rresult.rows[1]["price"] = rresult.rows[2]["price"]
    /\ rresult.rows[1]["price"].k = "num"

(***************************************************************************)
(* C30: during a fetch over any number of facilities, metrics, batches and *)
(* sub-windows at most one request is in flight, and the client is ready   *)
(* to send a request only when no request is in flight, that is after the  *)
(* response to the previous one has been received.                         *)
(***************************************************************************)
C30_SerializedRequests ==
    /\ inflight \in {0, 1}
    /\ inflight = 1 <=> cphase = "wait"
    /\ cphase = "ready" => inflight = 0

\* the third request of a bulk fetch over several batches and metrics is
\* in flight, alone
C30_Witness ==
    /\ cop = "bulk"
    /\ cphase = "wait"
    /\ cidx = 3
    /\ nreq = 3
    /\ Len(cplan) > 3
    /\ inflight = 1

(***************************************************************************)
(* C31: on the facility path and on the network path alike, whenever the   *)
(* normaliser returns at least one row the orchestrator goes on to write   *)
(* the consolidated table to the cache and return it: the processing step  *)
(* never raises.                                                           *)
(***************************************************************************)
C31_BothPathsProduce ==
    [][(/\ rpc = "process"
        /\ ~NormaliseRaises(rrecords)
        /\ normalise_timeseries_records(rrecords) # <<>>)
          => rpc' = "write"]_vars

(***************************************************************************)
(* C33: in the per-facility paginated fetch the points of page k have been *)
(* yielded when the request for page k+1 is issued: while a request for a  *)
(* later page of a chain is due or in flight the client holds no point it  *)
(* has not yielded.                                                        *)
(***************************************************************************)
C33_LazyYielding ==
    (cop = "single" /\ cpage > 1 /\ cphase \in {"ready", "wait"}) => cdata = 0

(***************************************************************************)
(* C38: in the per-facility paginated fetch a cursor chain yields all of   *)
(* its pages or nothing.  A response with a cursor yields nothing yet; the *)
(* last page yields the points of every page held so far together with its *)
(* own; a failed page request (404 or any other status) yields nothing,    *)
(* drops the pages held, raises nothing, and the fetch goes on with the    *)
(* next metric (after the last metric, with the next sub-window).          *)
(***************************************************************************)
C38_AllOrNothing ==
    [][(cop = "single" /\ cphase = "wait" /\ cphase' # "wait")
         => /\ cphase' \in {"ready", "done"}
            /\ craised' = craised
            /\ cout' = "page" => (cyield' = 0 /\ cdata' >= cdata /\ cpage' = cpage + 1)
            /\ cout' = "yield" => (cyield' >= cdata /\ cdata' = 0)
            /\ cout' = "skip"
                 => /\ cstatus' # 200
                    /\ cyield' = 0
                    /\ cdata' = 0
                    /\ cpage' = 1
                    /\ cidx < Len(cmetrics) => (cidx' = cidx + 1 /\ cphase' = "ready")
                    /\ cidx >= Len(cmetrics) => (cidx' = 1 /\ ccur' = CurrentEnd)]_vars

\* the second page of the only chain so far failed with a server error and
\* nothing was yielded
C38_Witness ==
    /\ cop = "single"
    /\ nchains = 1
    /\ nreq = 2
    /\ cstatus = 500
    /\ cout = "skip"
    /\ cyield = 0
    /\ cphase = "ready"

(***************************************************************************)
(* C39: normalise_timeseries_records raises nothing; a record whose        *)
(* timestamp field is present but does not parse is skipped like a record  *)
(* with a missing field, and every other record of the input that has a    *)
(* timestamp, a value field and a metric is still normalised.              *)
(***************************************************************************)
IsWhole(record) == record.ts >= 0 /\ HasValue(record) /\ record.metric # ""

C39_BadRecordSkipped ==
    dop.op = "normalise" =>
        /\ ~dop.raised
        /\ Len(dop.rows) = CountOf(dop.records, IsWhole)

(***************************************************************************)
(* C34: the cache changes only in the last step of a retrieval whose       *)
(* earlier steps all completed with at least one normalised row: the step  *)
(* writes the entry of the request's window, no other entry, and returns   *)
(* the table written.  A step that raises, the return of an empty table    *)
(* under partial-result tolerance and a return from the cache leave every  *)
(* entry as it was.                                                        *)
(***************************************************************************)
C34_WriteOnlyAfterSuccess ==
    [][/\ cache' # cache
          => /\ rpc = "write"
             /\ rpc' = "returned"
             /\ ~NormaliseRaises(rrecords)
             /\ normalise_timeseries_records(rrecords) # <<>>
             /\ rresult' = rclean
             /\ \A q \in CachePaths :
                    q # build_cache_path(rargs.start, rargs.end) => cache'[q] = cache[q]
       /\ (rpc' = "raised" \/ (rpc' = "returned" /\ rpc # "write")) => cache' = cache]_vars

\* a retrieval fetched, wrote its entry and returned
C34_Witness ==
    /\ rpc = "returned"
    /\ ~rhit
    /\ rreqs > 0
    /\ rwrites = 1
    /\ cache[build_cache_path(rargs.start, rargs.end)] = ToCsv(rresult)
    /\ ~IsEmpty(rresult)

(***************************************************************************)
(* C35: a table returned from the cache was produced by a retrieval of the *)
(* same request; in particular it was produced for the metric set of the   *)
(* current request, so every metric column it carries is a metric the      *)
(* current request asked for.                                              *)
(***************************************************************************)
C35_HitMatchesRequest ==
    (rpc = "returned" /\ rhit) =>
        \A c \in SeqSet(rresult.cols) :
            c \in {"power", "emissions", "price", "demand"} => c \in SeqSet(rargs.metrics)

(***************************************************************************)
(* C36: fetch_facilities_metrics issues, for every facility metric and     *)
(* every sub-window, one request per batch of at most 5 facility codes,    *)
(* each request with one metric; every catalog entry with a non-empty code *)
(* is in exactly one batch of each (metric, sub-window).  The requests     *)
(* issued so far are the first turns of the nested loops, and a fetch that *)
(* ran to its end has issued                                               *)
(* |facility metrics| x |sub-windows| x ceil(|codes| / 5) requests.        *)
(***************************************************************************)
C36_BatchCoverage ==
    (cop = "bulk" /\ cmetrics # <<>>) =>
        LET codes == FacilityCodes(cfacilities)
            nb == CeilDiv(Len(codes), BatchSize)
            total == Len(cmetrics) * Len(ClientWindows) * nb
            InBatch(r, code) == \E j \in 1..Len(r[3]) : r[3][j] = code
        IN  /\ nreq <= total
            /\ cphase = "done" => nreq = total
            /\ Cardinality(reqSeen) = nreq
            /\ \A r \in reqSeen :
                   /\ r[1] = "bulk"
                   /\ \E mi \in 1..Len(cmetrics) : r[2][1] = cmetrics[mi]
                   /\ r[2][2] \in 1..Len(ClientWindows)
                   /\ Len(r[3]) \in 1..BatchSize
                   /\ \A j \in 1..Len(r[3]) : r[3][j] # 0
            /\ cphase = "done" =>
                   \A mi \in 1..Len(cmetrics), wi \in 1..Len(ClientWindows),
                      i \in 1..Len(cfacilities) :
                       cfacilities[i] # 0 =>
                           Cardinality({r \in reqSeen : /\ r[2][1] = cmetrics[mi]
                                                        /\ r[2][2] = wi
                                                        /\ InBatch(r, cfacilities[i])}) = 1

\* six codes, two metrics and two sub-windows: eight requests, the batches
\* of five and of one code
C36_Witness ==
    /\ cop = "bulk"
    /\ cphase = "done"
    /\ Len(FacilityCodes(cfacilities)) = 6
    /\ Len(cmetrics) = 2
    /\ Len(ClientWindows) = 2
    /\ nreq = 8
    /\ \E r \in reqSeen : Len(r[3]) = 1

(***************************************************************************)
(* C37: in a result of the orchestrator the column of an optional metric   *)
(* (price, demand) is present if and only if the consolidated table has    *)
(* the column with a non-null value in at least one row; the key columns   *)
(* facility_id and timestamp, the primary metric columns the consolidated  *)
(* table has and the metadata column the merge added are retained.         *)
(***************************************************************************)
C37_OptionalColumns ==
    (dop.op = "filter" /\ ~dop.raised) =>
        /\ \A m \in SeqSet(OptionalMetrics) :
               (m \in ColSet(dop.out)) <=>
                   /\ m \in ColSet(dop.table)
                   /\ \E i \in 1..Len(dop.table.rows) : dop.table.rows[i][m] # NaN
        /\ {"facility_id", "timestamp"} \subseteq ColSet(dop.out)
        /\ \A c \in {"power", "emissions"} : c \in ColSet(dop.table) => c \in ColSet(dop.out)
        /\ dop.metadata # <<>> => "latitude" \in ColSet(dop.out)

\* the consolidated table has a price column without a value (the price
\* points are of another timestamp): the result has no price column
C37_Witness ==
    /\ dop.op = "filter"
    /\ ~dop.raised
    /\ "price" \in ColSet(dop.table)
    /\ "price" \notin ColSet(dop.out)
    /\ "power" \in ColSet(dop.out)
    /\ "latitude" \in ColSet(dop.out)

\* the price column has a value in one row and none in the other: it is kept
C37_WitnessKept ==
    /\ dop.op = "filter"
    /\ ~dop.raised
    /\ "price" \in ColSet(dop.out)
    /\ \E i \in 1..Len(dop.table.rows) : dop.table.rows[i]["price"] = NaN

(***************************************************************************)
(* C40: under fair scheduling every append call and every snapshot call    *)
(* acquires the lock and returns (or, for an append that fails, raises to  *)
(* its caller); the lock is held only by a thread inside its with block,   *)
(* so it is free whenever no call is in progress.                          *)
(***************************************************************************)
InWithBlock(t) ==
    tpc[t] \in {"app_row", "app_concat", "app_assign", "app_unlock", "snap_copy", "snap_unlock"}

C40_LockLiveness ==
    /\ [](\A t \in Threads : lock = t => InWithBlock(t))
    /\ []((\A t \in Threads : tpc[t] = "idle") => lock = 0)
    /\ \A t \in FairThreads : (tpc[t] \in {"app_lock", "snap_lock"}) ~> (lock = t)
    /\ \A t \in FairThreads : (tpc[t] # "idle") ~> (tpc[t] = "idle")

\* two threads called append at once; the append of m2 failed, the append
\* of m1 returned; no call is in progress and the lock is free
C40_Witness ==
    /\ \A t \in Threads : tpc[t] = "idle"
    /\ lock = 0
    /\ tmsg[2] = "m2"
    /\ completed = <<"m1">>
    /\ started = 2

(***************************************************************************)
(* C32: the per-facility fetch follows the cursors to the end of the chain *)
(* and terminates whatever the server answers: a fetch that has a request  *)
(* to issue comes to its end.                                              *)
(***************************************************************************)
C32_FetchTerminates ==
    (cop = "single" /\ cphase = "ready") ~> (cphase = "done")

====
